---- MODULE Spec2Model ----
(***************************************************************************)
(* Model of TaxfixNG-backend: the personal-income-tax calculator          *)
(* (app/features/profile/profile_router.py: compute_tax_liability and the  *)
(* estimate_tax handler built on it) and the request handlers around it    *)
(* (users and one-time passwords, profiles, documents) with the tables     *)
(* and the file storage they work on.                                      *)
(*                                                                         *)
(* Representation of money.  The code computes in binary floating point;   *)
(* the model computes the same expressions in exact arithmetic on a grid.  *)
(*   - an amount of money is an integer number of units, 3 units being     *)
(*     100 naira (Naira(n) below), so that 500000/12 is the integer 1250;  *)
(*   - a rate such as 0.15 is the integer 15 (per cent), so an amount of   *)
(*     tax is an integer number of hundredths of a unit (band * 15); the   *)
(*     walk therefore never divides;                                       *)
(*   - 0.20 * house_rent is (20 * house_rent) \div 100 in units, which is  *)
(*     exact on every house_rent the model draws (AmountsExact).           *)
(* An Optional[...] field of a request body is <<>> for None and <<v>> for *)
(* the value v.                                                            *)
(***************************************************************************)
EXTENDS Integers, Sequences, FiniteSets, TLC

VARIABLES
    forecast,    \* the request body (profile_schema.Forecast)
    pc,          \* "request", "computed" (compute_tax_liability returned),
                 \* "estimated" (estimate_tax returned)
    liability,   \* locals of the last compute_tax_liability call at return
    response,    \* the dict returned by estimate_tax
    users,       \* table users: rows [email, password, is_verified]
    otps,        \* table user_otp: rows [id, email, code, is_valid, created_at]
    otp_seq,     \* the user_otp id sequence; created_at follows the same order
    horizon,     \* rows with created_at <= horizon are older than 24 hours
    tokens,      \* the emails for which an access token has been issued
    profiles,    \* table user_profile
    now,         \* the time the database stamps on a profile row
    documents,   \* table documents
    doc_seq,     \* the documents id sequence
    files,       \* the storage directory: relative paths <<user_email, name>>
    file_seq,    \* stands for uuid4(): one fresh value for each saved file
    reply,       \* the last request served: [op, who, arg, status]
    history,     \* no state of the program: what the requests served so far
                 \* did, for the claims that speak of earlier requests
    inflight     \* the update_password_with_otp coroutines on the event loop:
                 \* for each, its request, its position and its locals

calc == <<forecast, pc, liability, response>>

tables == <<users, otps, profiles, documents>>

stores == <<users, otps, otp_seq, horizon, tokens, profiles, now, documents,
            doc_seq, files, file_seq>>

vars == <<calc, stores, reply, history, inflight>>

-----------------------------------------------------------------------------
(* Units and Optional values *)

Naira(n) == (n * 3) \div 100

TaxNaira(n) == Naira(n) * 100

None == <<>>

Some(v) == <<v>>

Min(a, b) == IF a <= b THEN a ELSE b

Max(a, b) == IF a >= b THEN a ELSE b

ANNUALLY == "annually"

MONTHLY == "monthly"

\* the twelve keyword arguments of compute_tax_liability that carry money
TaxFields ==
    {"employment_income", "business_income", "other_income",
     "chargeable_gains", "losses_allowed", "capital_allowances",
     "national_housing_fund", "National_health_insurance_scheme",
     "pension_contribution", "mortgage_interest", "life_insurance_premium",
     "house_rent"}

\* the monetary fields of the Forecast request body
ForecastFields == TaxFields \cup {"voluntary_pension_contribution"}

-----------------------------------------------------------------------------
(* compute_tax_liability, profile_router.py lines 16-108 *)

\* slip: chargeable_gains subtracted instead of added
TotalIncome_GainsSubtracted(a) ==
    LET total_income == a.employment_income + a.business_income
                        + a.other_income - a.chargeable_gains
                        - a.losses_allowed - a.capital_allowances
    IN  IF total_income < 0 THEN 0 ELSE total_income

\* 1. TOTAL INCOME
TotalIncome(a) ==
    LET total_income == a.employment_income + a.business_income
                        + a.other_income + a.chargeable_gains
                        - a.losses_allowed - a.capital_allowances
    IN  IF total_income < 0 THEN 0 ELSE total_income

\* slip: a negative relief raised to 0
RentRelief_FlooredAtZero(house_rent, period) ==
    IF period = MONTHLY
    THEN Max(Min((20 * house_rent) \div 100, Naira(500000) \div 12), 0)
    ELSE Max(Min((20 * house_rent) \div 100, Naira(500000)), 0)

\* slip: the annual cap applied whatever the period
RentRelief_AnnualCapOnly(house_rent, period) ==
    Min((20 * house_rent) \div 100, Naira(500000))

\* slip: max in place of min
RentRelief_MaxForMin(house_rent, period) ==
    IF period = MONTHLY
    THEN Max((20 * house_rent) \div 100, Naira(500000) \div 12)
    ELSE Max((20 * house_rent) \div 100, Naira(500000))

\* 2. rent relief: 20% of the rent, capped; the cap depends on the period
RentRelief(house_rent, period) ==
    IF period = MONTHLY
    THEN Min((20 * house_rent) \div 100, Naira(500000) \div 12)
    ELSE Min((20 * house_rent) \div 100, Naira(500000))

EligibleDeductions(a, rent_relief) ==
    a.national_housing_fund + a.National_health_insurance_scheme
    + a.pension_contribution + a.mortgage_interest
    + a.life_insurance_premium + rent_relief

\* slip: the deductions added to the income
ChargeableIncome_DeductionsAdded(total_income, eligible_deductions) ==
    Max(total_income + eligible_deductions, 0)

\* slip: the clamp at 0 forgotten
ChargeableIncome_NoClamp(total_income, eligible_deductions) ==
    total_income - eligible_deductions

\* 3. Chargeable Income
ChargeableIncome(total_income, eligible_deductions) ==
    Max(total_income - eligible_deductions, 0)

\* slip: the fourth band's amount never subtracted from remaining
BandWalk_Band4NotConsumed(chargeable_income) ==
    LET band1 == Min(chargeable_income, Naira(800000))
        tax1 == 0 + band1 * 0
        remaining1 == chargeable_income - band1
    IN  IF remaining1 <= 0 THEN tax1 ELSE
    LET band2 == Min(remaining1, Naira(2200000))
        tax2 == tax1 + band2 * 15
        remaining2 == remaining1 - band2
    IN  IF remaining2 <= 0 THEN tax2 ELSE
    LET band3 == Min(remaining2, Naira(9000000))
        tax3 == tax2 + band3 * 18
        remaining3 == remaining2 - band3
    IN  IF remaining3 <= 0 THEN tax3 ELSE
    LET band4 == Min(remaining3, Naira(13000000))
        tax4 == tax3 + band4 * 21
        remaining4 == remaining3
    IN  IF remaining4 <= 0 THEN tax4 ELSE
    LET band5 == Min(remaining4, Naira(25000000))
        tax5 == tax4 + band5 * 23
        remaining5 == remaining4 - band5
    IN  IF remaining5 <= 0 THEN tax5 ELSE
        tax5 + remaining5 * 25

\* slip: the second band 2,000,000 wide
BandWalk_Band2Width(chargeable_income) ==
    LET band1 == Min(chargeable_income, Naira(800000))
        tax1 == 0 + band1 * 0
        remaining1 == chargeable_income - band1
    IN  IF remaining1 <= 0 THEN tax1 ELSE
    LET band2 == Min(remaining1, Naira(2000000))
        tax2 == tax1 + band2 * 15
        remaining2 == remaining1 - band2
    IN  IF remaining2 <= 0 THEN tax2 ELSE
    LET band3 == Min(remaining2, Naira(9000000))
        tax3 == tax2 + band3 * 18
        remaining3 == remaining2 - band3
    IN  IF remaining3 <= 0 THEN tax3 ELSE
    LET band4 == Min(remaining3, Naira(13000000))
        tax4 == tax3 + band4 * 21
        remaining4 == remaining3 - band4
    IN  IF remaining4 <= 0 THEN tax4 ELSE
    LET band5 == Min(remaining4, Naira(25000000))
        tax5 == tax4 + band5 * 23
        remaining5 == remaining4 - band5
    IN  IF remaining5 <= 0 THEN tax5 ELSE
        tax5 + remaining5 * 25

\* slip: the first band taxed at 15%
BandWalk_Band1Taxed(chargeable_income) ==
    LET band1 == Min(chargeable_income, Naira(800000))
        tax1 == 0 + band1 * 15
        remaining1 == chargeable_income - band1
    IN  IF remaining1 <= 0 THEN tax1 ELSE
    LET band2 == Min(remaining1, Naira(2200000))
        tax2 == tax1 + band2 * 15
        remaining2 == remaining1 - band2
    IN  IF remaining2 <= 0 THEN tax2 ELSE
    LET band3 == Min(remaining2, Naira(9000000))
        tax3 == tax2 + band3 * 18
        remaining3 == remaining2 - band3
    IN  IF remaining3 <= 0 THEN tax3 ELSE
    LET band4 == Min(remaining3, Naira(13000000))
        tax4 == tax3 + band4 * 21
        remaining4 == remaining3 - band4
    IN  IF remaining4 <= 0 THEN tax4 ELSE
    LET band5 == Min(remaining4, Naira(25000000))
        tax5 == tax4 + band5 * 23
        remaining5 == remaining4 - band5
    IN  IF remaining5 <= 0 THEN tax5 ELSE
        tax5 + remaining5 * 25

\* slip: the second band's early return taken before its tax is added
BandWalk_ReturnBeforeBand2Tax(chargeable_income) ==
    LET band1 == Min(chargeable_income, Naira(800000))
        tax1 == 0 + band1 * 0
        remaining1 == chargeable_income - band1
    IN  IF remaining1 <= 0 THEN tax1 ELSE
    LET band2 == Min(remaining1, Naira(2200000))
        remaining2 == remaining1 - band2
    IN  IF remaining2 <= 0 THEN tax1 ELSE
    LET tax2 == tax1 + band2 * 15
        band3 == Min(remaining2, Naira(9000000))
        tax3 == tax2 + band3 * 18
        remaining3 == remaining2 - band3
    IN  IF remaining3 <= 0 THEN tax3 ELSE
    LET band4 == Min(remaining3, Naira(13000000))
        tax4 == tax3 + band4 * 21
        remaining4 == remaining3 - band4
    IN  IF remaining4 <= 0 THEN tax4 ELSE
    LET band5 == Min(remaining4, Naira(25000000))
        tax5 == tax4 + band5 * 23
        remaining5 == remaining4 - band5
    IN  IF remaining5 <= 0 THEN tax5 ELSE
        tax5 + remaining5 * 25

\* 4. the progressive walk with its early returns; tax in hundredths of a unit
BandWalk(chargeable_income) ==
    LET band1 == Min(chargeable_income, Naira(800000))
        tax1 == 0 + band1 * 0
        remaining1 == chargeable_income - band1
    IN  IF remaining1 <= 0 THEN tax1 ELSE
    LET band2 == Min(remaining1, Naira(2200000))
        tax2 == tax1 + band2 * 15
        remaining2 == remaining1 - band2
    IN  IF remaining2 <= 0 THEN tax2 ELSE
    LET band3 == Min(remaining2, Naira(9000000))
        tax3 == tax2 + band3 * 18
        remaining3 == remaining2 - band3
    IN  IF remaining3 <= 0 THEN tax3 ELSE
    LET band4 == Min(remaining3, Naira(13000000))
        tax4 == tax3 + band4 * 21
        remaining4 == remaining3 - band4
    IN  IF remaining4 <= 0 THEN tax4 ELSE
    LET band5 == Min(remaining4, Naira(25000000))
        tax5 == tax4 + band5 * 23
        remaining5 == remaining4 - band5
    IN  IF remaining5 <= 0 THEN tax5 ELSE
        tax5 + remaining5 * 25

\* the return statement the walk leaves by: after is the number of the band
\* whose "if remaining <= 0: return tax" fires (6 for the final return), and
\* remaining is the local of that name at that point
BandWalkReturn(chargeable_income) ==
    LET remaining1 == chargeable_income - Min(chargeable_income, Naira(800000))
    IN  IF remaining1 <= 0 THEN [after |-> 1, remaining |-> remaining1] ELSE
    LET remaining2 == remaining1 - Min(remaining1, Naira(2200000))
    IN  IF remaining2 <= 0 THEN [after |-> 2, remaining |-> remaining2] ELSE
    LET remaining3 == remaining2 - Min(remaining2, Naira(9000000))
    IN  IF remaining3 <= 0 THEN [after |-> 3, remaining |-> remaining3] ELSE
    LET remaining4 == remaining3 - Min(remaining3, Naira(13000000))
    IN  IF remaining4 <= 0 THEN [after |-> 4, remaining |-> remaining4] ELSE
    LET remaining5 == remaining4 - Min(remaining4, Naira(25000000))
    IN  IF remaining5 <= 0 THEN [after |-> 5, remaining |-> remaining5] ELSE
        [after |-> 6, remaining |-> remaining5]

\* the whole function: a is the record of the twelve money arguments;
\* the result records the locals at return, tax being the returned value
compute_tax_liability(a, period) ==
    LET total_income == TotalIncome(a)
        rent_relief == RentRelief(a.house_rent, period)
        eligible_deductions == EligibleDeductions(a, rent_relief)
        chargeable_income == ChargeableIncome(total_income, eligible_deductions)
    IN  [total_income |-> total_income,
         rent_relief |-> rent_relief,
         eligible_deductions |-> eligible_deductions,
         chargeable_income |-> chargeable_income,
         tax |-> BandWalk(chargeable_income)]

\* a call that passes the fields the body sets and leaves the others to the
\* defaults of the signature (0, Period.ANNUALLY)
SignatureDefaults(body) ==
    [f \in TaxFields |-> IF body[f] = None THEN 0 ELSE body[f][1]]

SignaturePeriod(body) ==
    IF body.period = None THEN ANNUALLY ELSE body.period[1]

-----------------------------------------------------------------------------
(* estimate_tax, profile_router.py lines 290-404 *)

\* "x or 0": None and 0 both give 0
OrZero(x) == IF x = None \/ x = Some(0) THEN 0 ELSE x[1]

\* lines 294-305
ForecastArgs(body) == [f \in TaxFields |-> OrZero(body[f])]

\* slip: a missing period defaulted to MONTHLY
ForecastPeriod_DefaultMonthly(body) ==
    IF body.period = None THEN MONTHLY ELSE body.period[1]

\* line 306
ForecastPeriod(body) == IF body.period = None THEN ANNUALLY ELSE body.period[1]

\* slip: the clamp at 0 forgotten
ForecastTotalIncome_NoClamp(a) ==
    a.employment_income + a.business_income + a.other_income
    + a.chargeable_gains - a.losses_allowed - a.capital_allowances

\* lines 326-335
ForecastTotalIncome(a) ==
    LET total_income == a.employment_income + a.business_income
                        + a.other_income + a.chargeable_gains
                        - a.losses_allowed - a.capital_allowances
    IN  IF total_income < 0 THEN 0 ELSE total_income

\* lines 338-341
ForecastRentRelief(house_rent, period) ==
    IF period = MONTHLY
    THEN Min((20 * house_rent) \div 100, Naira(500000) \div 12)
    ELSE Min((20 * house_rent) \div 100, Naira(500000))

\* slip: capital_allowances counted as a deduction
ForecastTotalDeduction_PlusAllowances(a, rent_relief) ==
    a.national_housing_fund + a.National_health_insurance_scheme
    + a.pension_contribution + a.mortgage_interest
    + a.life_insurance_premium + a.capital_allowances + rent_relief

\* lines 342-349
ForecastTotalDeduction(a, rent_relief) ==
    a.national_housing_fund + a.National_health_insurance_scheme
    + a.pension_contribution + a.mortgage_interest
    + a.life_insurance_premium + rent_relief

\* slip: the third band taxed at the second band's rate
progressive_tax_Band3Rate(amount) ==
    LET remaining0 == Max(amount, 0)
        band1 == Min(remaining0, Naira(800000))
        tax1 == 0 + band1 * 0
        remaining1 == remaining0 - band1
    IN  IF remaining1 <= 0 THEN tax1 ELSE
    LET band2 == Min(remaining1, Naira(2200000))
        tax2 == tax1 + band2 * 15
        remaining2 == remaining1 - band2
    IN  IF remaining2 <= 0 THEN tax2 ELSE
    LET band3 == Min(remaining2, Naira(9000000))
        tax3 == tax2 + band3 * 15
        remaining3 == remaining2 - band3
    IN  IF remaining3 <= 0 THEN tax3 ELSE
    LET band4 == Min(remaining3, Naira(13000000))
        tax4 == tax3 + band4 * 21
        remaining4 == remaining3 - band4
    IN  IF remaining4 <= 0 THEN tax4 ELSE
    LET band5 == Min(remaining4, Naira(25000000))
        tax5 == tax4 + band5 * 23
        remaining5 == remaining4 - band5
    IN  IF remaining5 <= 0 THEN tax5 ELSE
        tax5 + remaining5 * 25

\* the nested helper, lines 352-387
progressive_tax(amount) ==
    LET remaining0 == Max(amount, 0)
        band1 == Min(remaining0, Naira(800000))
        tax1 == 0 + band1 * 0
        remaining1 == remaining0 - band1
    IN  IF remaining1 <= 0 THEN tax1 ELSE
    LET band2 == Min(remaining1, Naira(2200000))
        tax2 == tax1 + band2 * 15
        remaining2 == remaining1 - band2
    IN  IF remaining2 <= 0 THEN tax2 ELSE
    LET band3 == Min(remaining2, Naira(9000000))
        tax3 == tax2 + band3 * 18
        remaining3 == remaining2 - band3
    IN  IF remaining3 <= 0 THEN tax3 ELSE
    LET band4 == Min(remaining3, Naira(13000000))
        tax4 == tax3 + band4 * 21
        remaining4 == remaining3 - band4
    IN  IF remaining4 <= 0 THEN tax4 ELSE
    LET band5 == Min(remaining4, Naira(25000000))
        tax5 == tax4 + band5 * 23
        remaining5 == remaining4 - band5
    IN  IF remaining5 <= 0 THEN tax5 ELSE
        tax5 + remaining5 * 25

\* slip: the MONTHLY tax annualized twice
PeriodScale_Twice(tax, period) == IF period = MONTHLY THEN tax * 12 * 12 ELSE tax

\* lines 394-396: both taxes are multiplied by 12 on a MONTHLY period
PeriodScale(tax, period) == IF period = MONTHLY THEN tax * 12 ELSE tax

\* slip: the MONTHLY figures annualized before banding instead of the tax after
estimate_tax_ScaledBeforeBanding(body) ==
    LET period == ForecastPeriod(body)
        k == IF period = MONTHLY THEN 12 ELSE 1
        a == [f \in TaxFields |-> k * ForecastArgs(body)[f]]
        inner == compute_tax_liability(a, ANNUALLY)
        total_income == ForecastTotalIncome(a)
        rent_relief == ForecastRentRelief(a.house_rent, ANNUALLY)
        total_deduction == ForecastTotalDeduction(a, rent_relief)
        prior_estimated_tax == progressive_tax(total_income)
    IN  [inner |-> inner,
         out |-> [gross_tax_liability |-> prior_estimated_tax,
                  total_income |-> total_income,
                  total_deductions |-> total_deduction,
                  estimated_tax_due |-> inner.tax]]

\* the handler: the inner compute_tax_liability call and the returned dict
estimate_tax(body) ==
    LET a == ForecastArgs(body)
        period == ForecastPeriod(body)
        inner == compute_tax_liability(a, period)
        total_income == ForecastTotalIncome(a)
        rent_relief == ForecastRentRelief(a.house_rent, period)
        total_deduction == ForecastTotalDeduction(a, rent_relief)
        prior_estimated_tax == progressive_tax(total_income)
    IN  [inner |-> inner,
         out |-> [gross_tax_liability |-> PeriodScale(prior_estimated_tax, period),
                  total_income |-> total_income,
                  total_deductions |-> total_deduction,
                  estimated_tax_due |-> PeriodScale(inner.tax, period)]]

-----------------------------------------------------------------------------
(* The request bodies the model draws *)

MaxIncomeSteps == 12

MaxFieldsSet == 3

\* the values a field takes when the request sets it (0 is the schema default)
FieldValues(f) ==
    CASE f = "employment_income" ->
            {Some(k * Naira(5000000)) : k \in 1..MaxIncomeSteps} \cup {None}
      [] f = "business_income" -> {Some(Naira(800000)), Some(Naira(12000000))}
      [] f = "other_income" -> {Some(Naira(1000000)), None}
      [] f = "chargeable_gains" -> {Some(Naira(3000000))}
      [] f = "losses_allowed" -> {Some(Naira(2000000)), None}
      [] f = "capital_allowances" -> {Some(Naira(7000000))}
      [] f = "national_housing_fund" -> {Some(Naira(200000))}
      [] f = "National_health_insurance_scheme" -> {Some(Naira(100000)), None}
      [] f = "pension_contribution" -> {Some(Naira(1000000))}
      [] f = "voluntary_pension_contribution" -> {Some(Naira(500000))}
      [] f = "mortgage_interest" -> {Some(Naira(300000))}
      [] f = "life_insurance_premium" -> {Some(Naira(50000)), None}
      [] f = "house_rent" ->
            {Some(Naira(100000)), Some(Naira(1000000)), Some(Naira(3000000)),
             Some(Naira(10000000))}

Periods == {None, Some(ANNUALLY), Some(MONTHLY)}

\* the body in which every field has its schema default
DefaultBody ==
    [f \in ForecastFields \cup {"period"} |->
        IF f = "period" THEN Some(ANNUALLY) ELSE Some(0)]

FieldOrder ==
    <<"employment_income", "business_income", "other_income",
      "chargeable_gains", "losses_allowed", "capital_allowances",
      "national_housing_fund", "National_health_insurance_scheme",
      "pension_contribution", "voluntary_pension_contribution",
      "mortgage_interest", "life_insurance_premium", "house_rent">>

\* the bodies that set at most k of the fields FieldOrder[i], FieldOrder[i+1], ...
RECURSIVE BodiesFrom(_, _)
BodiesFrom(i, k) ==
    IF i > Len(FieldOrder) THEN {DefaultBody}
    ELSE BodiesFrom(i + 1, k) \cup
         (IF k = 0 THEN {}
          ELSE {[b EXCEPT ![FieldOrder[i]] = v] :
                    b \in BodiesFrom(i + 1, k - 1),
                    v \in FieldValues(FieldOrder[i])})

\* every body that sets at most MaxFieldsSet monetary fields, under each period
Bodies ==
    {[b EXCEPT !.period = p] : b \in BodiesFrom(1, MaxFieldsSet), p \in Periods}

NoResult == <<>>

-----------------------------------------------------------------------------
(* Requests, replies and the values they carry *)

Emails == {"ada@x.ng", "bob@x.ng"}

Passwords == {"pw1", "pw2"}

\* what time_otp.now() can return; the code depends on the 120 s window only
Codes == {"111111", "222222"}

NoReply == [op |-> "none", who |-> "", arg |-> <<>>, status |-> 0]

\* history.consumed: the <<email, code>> pairs a successful e-mail
\* verification or password update was served for; history.period: for each
\* e-mail with a profile, the period its last create or update supplied
NoHistory == [consumed |-> {}, period |-> [e \in Emails |-> None]]

Reply(op, who, arg, status) ==
    [op |-> op, who |-> who, arg |-> arg, status |-> status]

\* db.query(model).filter(model.email == email).first() on users
check_email_exists(email) ==
    IF \E u \in users : u.email = email
    THEN Some(CHOOSE u \in users : u.email = email)
    ELSE None

-----------------------------------------------------------------------------
(* create_otp and purge_otps, sql_query.py *)

MaxOtps == 3

max_attempts == 5

\* purge_otps(invalid_only=True, older_than_hours=24)
purge_otps(table) ==
    {o \in table : ~(o.created_at <= horizon /\ ~o.is_valid)}

\* slip: the loop test lets a sixth attempt through
RECURSIVE create_otp_from_SixAttempts(_, _, _, _, _, _)
create_otp_from_SixAttempts(attempt, table, emails, email, code, seq) ==
    IF attempt > max_attempts
    THEN {[ok |-> FALSE, otps |-> table, seq |-> seq, attempts |-> attempt]}
    ELSE LET purged == purge_otps(table)
             new_otp == [id |-> seq + 1, email |-> email, code |-> code,
                         is_valid |-> TRUE, created_at |-> seq + 1]
         IN  IF email \notin emails
             THEN {[ok |-> FALSE, otps |-> purged, seq |-> seq,
                    attempts |-> attempt + 1]}
             ELSE IF \A o \in purged : o.code # code
             THEN {[ok |-> TRUE, otps |-> purged \cup {new_otp},
                    seq |-> seq + 1, attempts |-> attempt + 1]}
             ELSE UNION {create_otp_from_SixAttempts(attempt + 1, purged,
                                                     emails, email, c, seq) :
                            c \in Codes}

\* create_otp once `attempt` attempts have been made: the set of possible
\* outcomes [ok, otps, seq, attempts]. Each attempt purges, then inserts;
\* emails are the keys of the users table (the foreign key of user_otp.email);
\* a colliding code is replaced by whatever generate_otp_code() returns next
RECURSIVE create_otp_from(_, _, _, _, _, _)
create_otp_from(attempt, table, emails, email, code, seq) ==
    IF attempt >= max_attempts
    THEN \* retries exhausted: the last IntegrityError is raised
         {[ok |-> FALSE, otps |-> table, seq |-> seq, attempts |-> attempt]}
    ELSE LET purged == purge_otps(table)
             new_otp == [id |-> seq + 1, email |-> email, code |-> code,
                         is_valid |-> TRUE, created_at |-> seq + 1]
         IN  IF email \notin emails
             THEN \* an IntegrityError that is no duplicate: raised at once
                  {[ok |-> FALSE, otps |-> purged, seq |-> seq,
                    attempts |-> attempt + 1]}
             ELSE IF \A o \in purged : o.code # code
             THEN {[ok |-> TRUE, otps |-> purged \cup {new_otp},
                    seq |-> seq + 1, attempts |-> attempt + 1]}
             ELSE UNION {create_otp_from(attempt + 1, purged, emails, email,
                                         c, seq) : c \in Codes}

create_otp(table, emails, email, code, seq) ==
    create_otp_from(0, table, emails, email, code, seq)

\* the keys of the users table
UserEmails == {u.email : u \in users}

-----------------------------------------------------------------------------
(* user_router.py and the helpers of utils.py it calls *)

\* POST /signup
RegisterUser(email, password) ==
    /\ otp_seq < MaxOtps
    /\ IF check_email_exists(email) # None
       THEN /\ reply' = Reply("signup", email, <<>>, 400)
            /\ UNCHANGED <<users, otps, otp_seq>>
       ELSE /\ users' = users \cup
                  {[email |-> email, password |-> password, is_verified |-> FALSE]}
            /\ \E otpcode \in Codes :
                   \E out \in create_otp(otps, UserEmails \cup {email}, email,
                                          otpcode, otp_seq) :
                       /\ otps' = out.otps
                       /\ otp_seq' = out.seq
                       /\ reply' = Reply("signup", email,
                                         [code |-> otpcode,
                                          attempts |-> out.attempts],
                                         IF out.ok THEN 201 ELSE 500)
    /\ UNCHANGED <<calc, history, inflight, horizon, tokens, profiles, now, documents, doc_seq,
                   files, file_seq>>

\* the most recent row of a set of user_otp rows (order_by created_at desc)
MostRecent(rows) ==
    CHOOSE o \in rows : \A o2 \in rows : o2.created_at <= o.created_at

\* slip: the is_valid flag of the OTP found is not looked at
VerifyUserAccount_IgnoresIsValid(email, code) ==
    /\ LET otp_qs == {o \in otps : o.code = code /\ o.email = email}
       IN  IF otp_qs = {}
           THEN /\ reply' = Reply("email_verification", email, code, 400)
                /\ UNCHANGED <<users, otps>>
           ELSE LET otp == MostRecent(otp_qs)
                IN  IF otp.is_valid \/ ~otp.is_valid
                    THEN IF check_email_exists(otp.email) = None
                         THEN /\ reply' = Reply("email_verification", email,
                                                code, 400)
                              /\ UNCHANGED <<users, otps>>
                         ELSE /\ users' =
                                    {IF u.email = otp.email
                                     THEN [u EXCEPT !.is_verified = TRUE]
                                     ELSE u : u \in users}
                              /\ otps' =
                                    {IF o \in otp_qs
                                     THEN [o EXCEPT !.is_valid = FALSE]
                                     ELSE o : o \in otps}
                              /\ reply' = Reply("email_verification", email,
                                                code, 200)
                    ELSE /\ reply' = Reply("email_verification", email, code, 400)
                         /\ UNCHANGED <<users, otps>>
    /\ UNCHANGED inflight
    /\ history' = IF reply'.status = 200
                  THEN [history EXCEPT !.consumed = @ \cup {<<email, code>>}]
                  ELSE history
    /\ UNCHANGED <<calc, otp_seq, horizon, tokens, profiles, now, documents,
                   doc_seq, files, file_seq>>

\* POST /email-verification: utils.create_verify_account
VerifyUserAccount(email, code) ==
    /\ LET otp_qs == {o \in otps : o.code = code /\ o.email = email}
       IN  IF otp_qs = {}
           THEN /\ reply' = Reply("email_verification", email, code, 400)
                /\ UNCHANGED <<users, otps>>
           ELSE LET otp == MostRecent(otp_qs)
                IN  IF otp.is_valid
                    THEN IF check_email_exists(otp.email) = None
                         THEN /\ reply' = Reply("email_verification", email,
                                                code, 400)
                              /\ UNCHANGED <<users, otps>>
                         ELSE /\ users' =
                                    {IF u.email = otp.email
                                     THEN [u EXCEPT !.is_verified = TRUE]
                                     ELSE u : u \in users}
                              /\ otps' =
                                    {IF o \in otp_qs
                                     THEN [o EXCEPT !.is_valid = FALSE]
                                     ELSE o : o \in otps}
                              /\ reply' = Reply("email_verification", email,
                                                code, 200)
                    ELSE /\ reply' = Reply("email_verification", email, code, 400)
                         /\ UNCHANGED <<users, otps>>
    /\ UNCHANGED inflight
    /\ history' = IF reply'.status = 200
                  THEN [history EXCEPT !.consumed = @ \cup {<<email, code>>}]
                  ELSE history
    /\ UNCHANGED <<calc, otp_seq, horizon, tokens, profiles, now, documents,
                   doc_seq, files, file_seq>>

\* POST /login: utils.create_login
Login(email, password) ==
    /\ otp_seq < MaxOtps
    /\ LET user == check_email_exists(email)
       IN  IF user = None \/ user[1].password # password
           THEN /\ reply' = Reply("login", email, <<>>, 401)
                /\ UNCHANGED <<otps, otp_seq, tokens>>
           ELSE IF ~user[1].is_verified
           THEN \* a new OTP is sent; a failure of create_otp is swallowed
                /\ \E otpcode \in Codes :
                       \E out \in create_otp(otps, UserEmails, email, otpcode,
                                              otp_seq) :
                           /\ otps' = out.otps
                           /\ otp_seq' = out.seq
                /\ reply' = Reply("login", email, <<>>, 401)
                /\ UNCHANGED tokens
           ELSE /\ tokens' = tokens \cup {email}
                /\ reply' = Reply("login", email, <<>>, 200)
                /\ UNCHANGED <<otps, otp_seq>>
    /\ UNCHANGED <<calc, history, inflight, users, horizon, profiles, now, documents, doc_seq,
                   files, file_seq>>

\* POST /forget-password
ForgetPassword(email) ==
    /\ otp_seq < MaxOtps
    /\ IF check_email_exists(email) = None
       THEN /\ reply' = Reply("forget_password", email, <<>>, 404)
            /\ UNCHANGED <<otps, otp_seq>>
       ELSE \E token \in Codes :
                \E out \in create_otp(otps, UserEmails, email, token, otp_seq) :
                    /\ otps' = out.otps
                    /\ otp_seq' = out.seq
                    /\ reply' = Reply("forget_password", email,
                                      [code |-> token,
                                       attempts |-> out.attempts],
                                      IF out.ok THEN 200 ELSE 500)
    /\ UNCHANGED <<calc, history, inflight, users, horizon, tokens, profiles, now, documents,
                   doc_seq, files, file_seq>>

\* slip: the is_valid flag of the OTP record not looked at
UpdatePasswordWithOtp_IgnoresIsValid(email, otp, new_password) ==
    /\ LET user == check_email_exists(email)
           mine == {o \in otps : o.email = email}
           arg == [otp |-> otp, new_password |-> new_password]
       IN  IF user = None
           THEN /\ reply' = Reply("update_password_with_otp", email, arg, 404)
                /\ UNCHANGED <<users, otps>>
           ELSE IF mine = {} \/ MostRecent(mine).code # otp
           THEN /\ reply' = Reply("update_password_with_otp", email, arg, 400)
                /\ UNCHANGED <<users, otps>>
           ELSE /\ users' = {IF u.email = email
                             THEN [u EXCEPT !.password = new_password]
                             ELSE u : u \in users}
                /\ otps' = {IF o = MostRecent(mine)
                            THEN [o EXCEPT !.is_valid = FALSE]
                            ELSE o : o \in otps}
                /\ reply' = Reply("update_password_with_otp", email, arg, 200)
    /\ UNCHANGED inflight
    /\ history' = IF reply'.status = 200
                  THEN [history EXCEPT !.consumed = @ \cup {<<email, otp>>}]
                  ELSE history
    /\ UNCHANGED <<calc, otp_seq, horizon, tokens, profiles, now, documents,
                   doc_seq, files, file_seq>>

\* POST /update-password-with-otp
UpdatePasswordWithOtp(email, otp, new_password) ==
    /\ LET user == check_email_exists(email)
           mine == {o \in otps : o.email = email}
           arg == [otp |-> otp, new_password |-> new_password]
       IN  IF user = None
           THEN /\ reply' = Reply("update_password_with_otp", email, arg, 404)
                /\ UNCHANGED <<users, otps>>
           ELSE IF mine = {} \/ ~MostRecent(mine).is_valid
                   \/ MostRecent(mine).code # otp
           THEN /\ reply' = Reply("update_password_with_otp", email, arg, 400)
                /\ UNCHANGED <<users, otps>>
           ELSE /\ users' = {IF u.email = email
                             THEN [u EXCEPT !.password = new_password]
                             ELSE u : u \in users}
                /\ otps' = {IF o = MostRecent(mine)
                            THEN [o EXCEPT !.is_valid = FALSE]
                            ELSE o : o \in otps}
                /\ reply' = Reply("update_password_with_otp", email, arg, 200)
    /\ UNCHANGED inflight
    /\ history' = IF reply'.status = 200
                  THEN [history EXCEPT !.consumed = @ \cup {<<email, otp>>}]
                  ELSE history
    /\ UNCHANGED <<calc, otp_seq, horizon, tokens, profiles, now, documents,
                   doc_seq, files, file_seq>>

\* a day goes by: more user_otp rows become older than 24 hours
TimePasses ==
    /\ \E h \in (horizon + 1)..otp_seq : horizon' = h
    /\ reply' = NoReply
    /\ UNCHANGED <<calc, history, inflight, users, otps, otp_seq, tokens, profiles, now,
                   documents, doc_seq, files, file_seq>>

(* update_password_with_otp, one coroutine step at a time *)

\* the requests in flight at once
Coroutines == {1, 2}

\* a coroutine: the request body, the position in the handler ("idle": no
\* request; "accepted": scheduled, not started; "checked": the OTP check has
\* passed; "done": the response is sent), the OTP row the handler loaded, the
\* response status, and (no state of the program) whether another request
\* for the same e-mail and OTP was in flight when this one was accepted
NoRequest ==
    [stage |-> "idle", email |-> "", otp |-> "", new_password |-> "",
     otp_record |-> None, status |-> 0, overlap |-> FALSE]

NoRequests == [i \in Coroutines |-> NoRequest]

\* slip: the handler awaits between the OTP check and the commit
YieldPoints_AfterCheck == {"checked"}

\* the positions at which update_password_with_otp hands control back to the
\* event loop: the handler is a coroutine whose body awaits nothing
YieldPoints == {}

\* the event loop runs one coroutine at a time, from where it was resumed to
\* its next await or its return
EventLoopFree(i) ==
    \A j \in Coroutines \ {i} :
        inflight[j].stage \in {"idle", "accepted", "done"} \cup YieldPoints

LoopIdle ==
    \A j \in Coroutines :
        inflight[j].stage \in {"idle", "accepted", "done"} \cup YieldPoints

InFlight(j) == inflight[j].stage \in {"accepted", "checked"}

\* POST /update-password-with-otp is received and its coroutine scheduled
AcceptUpdatePassword(i, email, otp, new_password) ==
    /\ inflight[i].stage \in {"idle", "done"}
    /\ LET twin(j) == /\ j # i
                      /\ InFlight(j)
                      /\ inflight[j].email = email
                      /\ inflight[j].otp = otp
       IN  inflight' =
               [j \in Coroutines |->
                   IF j = i
                   THEN [NoRequest EXCEPT
                           !.stage = "accepted", !.email = email,
                           !.otp = otp, !.new_password = new_password,
                           !.overlap = \E k \in Coroutines : twin(k)]
                   ELSE IF twin(j)
                   THEN [inflight[j] EXCEPT !.overlap = TRUE]
                   ELSE inflight[j]]
    /\ reply' = NoReply
    /\ UNCHANGED <<calc, stores, history>>

\* user_router.py:227-240: load the user, load the newest OTP row, check it
CheckOtpStep(i) ==
    /\ inflight[i].stage = "accepted"
    /\ EventLoopFree(i)
    /\ LET r == inflight[i]
           user == check_email_exists(r.email)
           mine == {o \in otps : o.email = r.email}
           arg == [otp |-> r.otp, new_password |-> r.new_password]
       IN  IF user = None
           THEN /\ inflight' = [inflight EXCEPT ![i].stage = "done",
                                                ![i].status = 404]
                /\ reply' = Reply("update_password_with_otp", r.email, arg, 404)
           ELSE IF mine = {} \/ ~MostRecent(mine).is_valid
                   \/ MostRecent(mine).code # r.otp
           THEN /\ inflight' = [inflight EXCEPT ![i].stage = "done",
                                                ![i].status = 400]
                /\ reply' = Reply("update_password_with_otp", r.email, arg, 400)
           ELSE /\ inflight' = [inflight EXCEPT
                                  ![i].stage = "checked",
                                  ![i].otp_record = Some(MostRecent(mine))]
                /\ reply' = NoReply
    /\ UNCHANGED <<calc, stores, history>>

\* user_router.py:243-249: set the password, clear is_valid on the row that
\* was loaded, commit
CommitPasswordStep(i) ==
    /\ inflight[i].stage = "checked"
    /\ EventLoopFree(i)
    /\ LET r == inflight[i]
           arg == [otp |-> r.otp, new_password |-> r.new_password]
       IN  /\ users' = {IF u.email = r.email
                        THEN [u EXCEPT !.password = r.new_password]
                        ELSE u : u \in users}
           /\ otps' = {IF o.id = r.otp_record[1].id
                       THEN [o EXCEPT !.is_valid = FALSE]
                       ELSE o : o \in otps}
           /\ inflight' = [inflight EXCEPT ![i].stage = "done",
                                           ![i].status = 200]
           /\ reply' = Reply("update_password_with_otp", r.email, arg, 200)
           /\ history' = [history EXCEPT
                            !.consumed = @ \cup {<<r.email, r.otp>>}]
    /\ UNCHANGED <<calc, otp_seq, horizon, tokens, profiles, now, documents,
                   doc_seq, files, file_seq>>

\* POST /forget-password, served when the event loop is free to start it
IssueOtp(email) ==
    /\ LoopIdle
    /\ ForgetPassword(email)

-----------------------------------------------------------------------------
(* Authentication, utils.py *)

\* get_current_user: the token carries the e-mail; the user row must exist
get_current_user(bearer) == check_email_exists(bearer)

-----------------------------------------------------------------------------
(* The user_profile table and the profile handlers, profile_router.py *)

MaxNow == 3

TextColumns ==
    {"name", "phone_no", "address", "employment_type", "date_of_birth",
     "state_of_residence", "state_tax_authority", "NIN"}

\* the columns of user_profile a request can reach; email and the two
\* timestamps are kept beside them in the row
ProfileColumns == TextColumns \cup TaxFields \cup {"estimated_tax"}

\* the fields of the ProfileBase request body
ProfileFields ==
    TextColumns \cup ForecastFields \cup {"period", "estimated_tax"}

\* the value pydantic gives a field the request does not set
ProfileDefault(f) ==
    IF f \in ForecastFields THEN Some(0)
    ELSE IF f = "period" THEN Some(ANNUALLY)
    ELSE None

\* payload.<f>: a payload is a function on the fields the request sets
PayloadGet(payload, f) ==
    IF f \in DOMAIN payload THEN payload[f] ELSE ProfileDefault(f)

\* the period argument as compute_tax_liability receives it
PeriodArg(p) == IF p = None THEN "None" ELSE p[1]

ProfileOf(email) ==
    IF \E p \in profiles : p.email = email
    THEN Some(CHOOSE p \in profiles : p.email = email)
    ELSE None

\* slip: the check for an existing profile left out
CreateProfile_NoExistingCheck(bearer, payload) ==
    /\ now < MaxNow
    /\ LET current_user == get_current_user(bearer)
           tax_args == [k \in TaxFields |-> OrZero(PayloadGet(payload, k))]
           tax == compute_tax_liability(tax_args, ANNUALLY).tax
           estimated_tax ==
               IF PayloadGet(payload, "period") = Some(MONTHLY)
               THEN tax * 12 ELSE tax
           stored == {"name", "phone_no", "address", "date_of_birth",
                      "state_of_residence", "state_tax_authority", "NIN"}
           new_profile ==
               [email |-> bearer,
                cols |-> [c \in ProfileColumns |->
                            IF c \in stored THEN PayloadGet(payload, c)
                            ELSE IF c \in TaxFields THEN Some(tax_args[c])
                            ELSE IF c = "estimated_tax" THEN Some(estimated_tax)
                            ELSE None],
                date_created |-> now + 1,
                date_modified |-> now + 1]
       IN  IF current_user = None
           THEN /\ reply' = Reply("create_profile", bearer, payload, 401)
                /\ UNCHANGED <<profiles, now>>
           ELSE IF new_profile.cols["name"] = None
           THEN /\ reply' = Reply("create_profile", bearer, payload, 500)
                /\ UNCHANGED <<profiles, now>>
           ELSE /\ profiles' = profiles \cup {new_profile}
                /\ now' = now + 1
                /\ reply' = Reply("create_profile", bearer, payload, 201)
    /\ UNCHANGED inflight
    /\ history' = IF reply'.status = 201
                  THEN [history EXCEPT
                          !.period[bearer] = PayloadGet(payload, "period")]
                  ELSE history
    /\ UNCHANGED <<calc, users, otps, otp_seq, horizon, tokens, documents,
                   doc_seq, files, file_seq>>

\* POST /profile/
CreateProfile(bearer, payload) ==
    /\ now < MaxNow
    /\ LET current_user == get_current_user(bearer)
           tax_args == [k \in TaxFields |-> OrZero(PayloadGet(payload, k))]
           \* compute_tax_liability(**tax_args): period keeps its default
           tax == compute_tax_liability(tax_args, ANNUALLY).tax
           estimated_tax ==
               IF PayloadGet(payload, "period") = Some(MONTHLY)
               THEN tax * 12 ELSE tax
           \* "occupation" is no field of the payload and is never copied
           stored == {"name", "phone_no", "address", "date_of_birth",
                      "state_of_residence", "state_tax_authority", "NIN"}
           new_profile ==
               [email |-> bearer,
                cols |-> [c \in ProfileColumns |->
                            IF c \in stored THEN PayloadGet(payload, c)
                            ELSE IF c \in TaxFields THEN Some(tax_args[c])
                            ELSE IF c = "estimated_tax" THEN Some(estimated_tax)
                            ELSE None],
                date_created |-> now + 1,
                date_modified |-> now + 1]
       IN  IF current_user = None
           THEN /\ reply' = Reply("create_profile", bearer, payload, 401)
                /\ UNCHANGED <<profiles, now>>
           ELSE IF ProfileOf(bearer) # None
           THEN /\ reply' = Reply("create_profile", bearer, payload, 400)
                /\ UNCHANGED <<profiles, now>>
           ELSE IF new_profile.cols["name"] = None
           THEN \* name is NOT NULL: the INSERT fails and nothing is stored
                /\ reply' = Reply("create_profile", bearer, payload, 500)
                /\ UNCHANGED <<profiles, now>>
           ELSE /\ profiles' = profiles \cup {new_profile}
                /\ now' = now + 1
                /\ reply' = Reply("create_profile", bearer, payload, 201)
    /\ UNCHANGED inflight
    /\ history' = IF reply'.status = 201
                  THEN [history EXCEPT
                          !.period[bearer] = PayloadGet(payload, "period")]
                  ELSE history
    /\ UNCHANGED <<calc, users, otps, otp_seq, horizon, tokens, documents,
                   doc_seq, files, file_seq>>

\* slip: every column written from the payload, set by the request or not
UpdateProfile_WritesDefaults(bearer, payload) ==
    /\ now < MaxNow
    /\ LET current_user == get_current_user(bearer)
           profile == ProfileOf(bearer)
           updates == [f \in ProfileFields |-> PayloadGet(payload, f)]
           tax_args == [k \in TaxFields |-> OrZero(updates[k])]
           period_val == updates["period"]
           tax == compute_tax_liability(tax_args, PeriodArg(period_val)).tax
           estimated_tax == IF period_val = Some(MONTHLY) THEN tax * 12 ELSE tax
           cols == [c \in ProfileColumns |->
                      IF c = "estimated_tax" THEN Some(estimated_tax)
                      ELSE updates[c]]
       IN  IF current_user = None
           THEN /\ reply' = Reply("update_profile", bearer, payload, 401)
                /\ UNCHANGED <<profiles, now>>
           ELSE IF profile = None
           THEN /\ reply' = Reply("update_profile", bearer, payload, 404)
                /\ UNCHANGED <<profiles, now>>
           ELSE IF cols["name"] = None
           THEN /\ reply' = Reply("update_profile", bearer, payload, 500)
                /\ UNCHANGED <<profiles, now>>
           ELSE /\ profiles' =
                      (profiles \ {profile[1]}) \cup
                      {[profile[1] EXCEPT
                          !.cols = cols,
                          !.date_modified =
                              IF cols # profile[1].cols THEN now + 1 ELSE @]}
                /\ now' = now + 1
                /\ reply' = Reply("update_profile", bearer, payload, 200)
    /\ UNCHANGED inflight
    /\ history' = IF reply'.status = 200 /\ "period" \in DOMAIN payload
                  THEN [history EXCEPT !.period[bearer] = payload["period"]]
                  ELSE history
    /\ UNCHANGED <<calc, users, otps, otp_seq, horizon, tokens, documents,
                   doc_seq, files, file_seq>>

\* slip: an estimated_tax sent by the client is kept
UpdateProfile_ClientEstimateKept(bearer, payload) ==
    /\ now < MaxNow
    /\ LET current_user == get_current_user(bearer)
           profile == ProfileOf(bearer)
           updates == payload
           tax_args == [k \in TaxFields |->
                          IF k \in DOMAIN updates THEN OrZero(updates[k])
                          ELSE OrZero(profile[1].cols[k])]
           period_val == IF "period" \in DOMAIN updates THEN updates["period"]
                         ELSE Some(ANNUALLY)
           tax == compute_tax_liability(tax_args, PeriodArg(period_val)).tax
           estimated_tax == IF period_val = Some(MONTHLY) THEN tax * 12 ELSE tax
           cols == [c \in ProfileColumns |->
                      IF c \in DOMAIN updates THEN updates[c]
                      ELSE IF c = "estimated_tax" THEN Some(estimated_tax)
                      ELSE profile[1].cols[c]]
       IN  IF current_user = None
           THEN /\ reply' = Reply("update_profile", bearer, payload, 401)
                /\ UNCHANGED <<profiles, now>>
           ELSE IF profile = None
           THEN /\ reply' = Reply("update_profile", bearer, payload, 404)
                /\ UNCHANGED <<profiles, now>>
           ELSE IF cols["name"] = None
           THEN \* name is NOT NULL: the UPDATE fails and nothing is stored
                /\ reply' = Reply("update_profile", bearer, payload, 500)
                /\ UNCHANGED <<profiles, now>>
           ELSE \* onupdate=now(): an UPDATE is sent, and date_modified
                /\ profiles' =
                      (profiles \ {profile[1]}) \cup
                      {[profile[1] EXCEPT
                          !.cols = cols,
                          !.date_modified =
                              IF cols # profile[1].cols THEN now + 1 ELSE @]}
                /\ now' = now + 1
                /\ reply' = Reply("update_profile", bearer, payload, 200)
    /\ UNCHANGED inflight
    /\ history' = IF reply'.status = 200 /\ "period" \in DOMAIN payload
                  THEN [history EXCEPT !.period[bearer] = payload["period"]]
                  ELSE history
    /\ UNCHANGED <<calc, users, otps, otp_seq, horizon, tokens, documents,
                   doc_seq, files, file_seq>>

\* PATCH /profile/
UpdateProfile(bearer, payload) ==
    /\ now < MaxNow
    /\ LET current_user == get_current_user(bearer)
           profile == ProfileOf(bearer)
           \* payload.dict(exclude_unset=True): the fields the request sets
           updates == payload
           tax_args == [k \in TaxFields |->
                          IF k \in DOMAIN updates THEN OrZero(updates[k])
                          ELSE OrZero(profile[1].cols[k])]
           \* UserProfile has no period attribute: the getattr default applies
           period_val == IF "period" \in DOMAIN updates THEN updates["period"]
                         ELSE Some(ANNUALLY)
           tax == compute_tax_liability(tax_args, PeriodArg(period_val)).tax
           estimated_tax == IF period_val = Some(MONTHLY) THEN tax * 12 ELSE tax
           \* setattr for every key; only the keys that are columns are stored
           cols == [c \in ProfileColumns |->
                      IF c = "estimated_tax" THEN Some(estimated_tax)
                      ELSE IF c \in DOMAIN updates THEN updates[c]
                      ELSE profile[1].cols[c]]
       IN  IF current_user = None
           THEN /\ reply' = Reply("update_profile", bearer, payload, 401)
                /\ UNCHANGED <<profiles, now>>
           ELSE IF profile = None
           THEN /\ reply' = Reply("update_profile", bearer, payload, 404)
                /\ UNCHANGED <<profiles, now>>
           ELSE IF cols["name"] = None
           THEN \* name is NOT NULL: the UPDATE fails and nothing is stored
                /\ reply' = Reply("update_profile", bearer, payload, 500)
                /\ UNCHANGED <<profiles, now>>
           ELSE \* onupdate=now(): an UPDATE is sent, and date_modified
                \* stamped, when some column has a new value
                /\ profiles' =
                      (profiles \ {profile[1]}) \cup
                      {[profile[1] EXCEPT
                          !.cols = cols,
                          !.date_modified =
                              IF cols # profile[1].cols THEN now + 1 ELSE @]}
                /\ now' = now + 1
                /\ reply' = Reply("update_profile", bearer, payload, 200)
    /\ UNCHANGED inflight
    /\ history' = IF reply'.status = 200 /\ "period" \in DOMAIN payload
                  THEN [history EXCEPT !.period[bearer] = payload["period"]]
                  ELSE history
    /\ UNCHANGED <<calc, users, otps, otp_seq, horizon, tokens, documents,
                   doc_seq, files, file_seq>>

\* DELETE /profile/
DeleteProfile(bearer) ==
    /\ LET current_user == get_current_user(bearer)
           profile == ProfileOf(bearer)
       IN  IF current_user = None
           THEN /\ reply' = Reply("delete_profile", bearer, <<>>, 401)
                /\ UNCHANGED profiles
           ELSE IF profile = None
           THEN /\ reply' = Reply("delete_profile", bearer, <<>>, 404)
                /\ UNCHANGED profiles
           ELSE /\ profiles' = profiles \ {profile[1]}
                /\ reply' = Reply("delete_profile", bearer, <<>>, 204)
    /\ UNCHANGED inflight
    /\ history' = IF reply'.status = 204
                  THEN [history EXCEPT !.period[bearer] = None]
                  ELSE history
    /\ UNCHANGED <<calc, users, otps, otp_seq, horizon, tokens, now,
                   documents, doc_seq, files, file_seq>>

-----------------------------------------------------------------------------
(* The storage directory, storage.py *)

MaxFiles == 2

MaxDocs == 2

\* one component of a path below the storage directory: a user directory,
\* "..", or a stored file "<uuid>_<name>" (uuid 0: no uuid prefix)
Segment(uuid, name) == [uuid |-> uuid, name |-> name]

UserDir(email) == Segment(0, email)

DotDot == Segment(0, "..")

\* Path.resolve() on a relative path: None when it leaves the storage dir
RECURSIVE Resolve(_, _)
Resolve(path, acc) ==
    IF path = <<>> THEN Some(acc)
    ELSE IF Head(path) = DotDot
    THEN IF acc = <<>> THEN None
         ELSE Resolve(Tail(path), SubSeq(acc, 1, Len(acc) - 1))
    ELSE Resolve(Tail(path), Append(acc, Head(path)))

\* a user directory exists while it holds a file
DirExists(dir) == \E f \in files : f[1] = dir

\* get_file_path: the file the relative path leads to, None if the path
\* leaves the storage directory or leads to no file
get_file_path(relative_path) ==
    LET resolved == Resolve(relative_path, <<>>)
    IN  IF /\ resolved # None
           /\ resolved[1] \in files
           /\ \A i \in 1..(Len(relative_path) - 1) :
                  relative_path[i] # DotDot => DirExists(relative_path[i])
        THEN resolved
        ELSE None

\* save_file: the relative path of the new file
save_file(user_email, filename) == <<UserDir(user_email), filename>>

\* delete_file: the storage without the file the path leads to
delete_file(relative_path) ==
    IF get_file_path(relative_path) = None THEN files
    ELSE files \ {get_file_path(relative_path)[1]}

-----------------------------------------------------------------------------
(* The documents table and the document handlers, doc_router.py *)

DocumentNames == {"receipt"}

DocOf(doc_id) ==
    IF \E d \in documents : d.id = doc_id
    THEN Some(CHOOSE d \in documents : d.id = doc_id)
    ELSE None

\* POST /documents/upload; a request without a file stores a row whose
\* file_url is NULL where the column is nullable, and fails where it is not
UploadDocument(bearer, document_name, with_file) ==
    /\ doc_seq < MaxDocs
    /\ file_seq < MaxFiles
    /\ LET current_user == get_current_user(bearer)
           unique_filename == Segment(file_seq + 1, document_name)
           relative_path == save_file(bearer, unique_filename)
           arg == [document_name |-> document_name, with_file |-> with_file]
           doc == [id |-> doc_seq + 1, user_email |-> bearer,
                   document_name |-> document_name,
                   file_url |-> IF with_file THEN Some(relative_path) ELSE None]
       IN  IF current_user = None
           THEN /\ reply' = Reply("upload_document", bearer, arg, 401)
                /\ UNCHANGED <<documents, doc_seq, files, file_seq>>
           ELSE /\ IF with_file
                   THEN files' = files \cup {relative_path}
                        /\ file_seq' = file_seq + 1
                   ELSE UNCHANGED <<files, file_seq>>
                /\ \/ /\ documents' = documents \cup {doc}
                      /\ doc_seq' = doc_seq + 1
                      /\ reply' = Reply("upload_document", bearer, arg, 201)
                   \/ /\ ~with_file
                      /\ reply' = Reply("upload_document", bearer, arg, 500)
                      /\ UNCHANGED <<documents, doc_seq>>
    /\ UNCHANGED <<calc, history, inflight, users, otps, otp_seq, horizon, tokens, profiles, now>>

\* PUT /documents/{doc_id}; document_name None: the form field is absent
UpdateDocument(bearer, doc_id, document_name, with_file) ==
    /\ file_seq < MaxFiles
    /\ LET current_user == get_current_user(bearer)
           doc == DocOf(doc_id)
           arg == [doc_id |-> doc_id, document_name |-> document_name,
                   with_file |-> with_file]
       IN  IF current_user = None
           THEN /\ reply' = Reply("update_document", bearer, arg, 401)
                /\ UNCHANGED <<documents, files, file_seq>>
           ELSE IF doc = None \/ doc[1].user_email # bearer
           THEN /\ reply' = Reply("update_document", bearer, arg, 404)
                /\ UNCHANGED <<documents, files, file_seq>>
           ELSE \E filename \in DocumentNames :
                  LET unique_filename ==
                          Segment(file_seq + 1,
                                  IF document_name = None THEN filename
                                  ELSE document_name[1])
                      relative_path == save_file(bearer, unique_filename)
                      kept == IF doc[1].file_url = None THEN files
                              ELSE delete_file(doc[1].file_url[1])
                      updated ==
                          [doc[1] EXCEPT
                             !.file_url = IF with_file THEN Some(relative_path)
                                          ELSE @,
                             !.document_name = IF document_name = None THEN @
                                               ELSE document_name[1]]
                  IN  /\ IF with_file
                         THEN files' = kept \cup {relative_path}
                              /\ file_seq' = file_seq + 1
                         ELSE UNCHANGED <<files, file_seq>>
                      /\ documents' = (documents \ {doc[1]}) \cup {updated}
                      /\ reply' = Reply("update_document", bearer, arg, 200)
    /\ UNCHANGED <<calc, history, inflight, users, otps, otp_seq, horizon, tokens, profiles, now,
                   doc_seq>>

\* DELETE /documents/{doc_id}
DeleteDocument(bearer, doc_id) ==
    /\ LET current_user == get_current_user(bearer)
           doc == DocOf(doc_id)
           arg == [doc_id |-> doc_id]
       IN  IF current_user = None
           THEN /\ reply' = Reply("delete_document", bearer, arg, 401)
                /\ UNCHANGED <<documents, files>>
           ELSE IF doc = None \/ doc[1].user_email # bearer
           THEN /\ reply' = Reply("delete_document", bearer, arg, 404)
                /\ UNCHANGED <<documents, files>>
           ELSE /\ files' = IF doc[1].file_url = None THEN files
                            ELSE delete_file(doc[1].file_url[1])
                /\ documents' = documents \ {doc[1]}
                /\ reply' = Reply("delete_document", bearer, arg, 204)
    /\ UNCHANGED <<calc, history, inflight, users, otps, otp_seq, horizon, tokens, profiles, now,
                   doc_seq, file_seq>>

\* slip: the file served without looking for the document record
DownloadDocument_NoRecordCheck(bearer, user_email, file_path) ==
    /\ LET current_user == get_current_user(bearer)
           relative_path == <<UserDir(user_email)>> \o file_path
           full_file_path == get_file_path(relative_path)
           arg(served) == [user_email |-> user_email, file_path |-> file_path,
                           served |-> served]
       IN  IF current_user = None
           THEN reply' = Reply("download_document", bearer, arg(None), 401)
           ELSE IF bearer # user_email
           THEN reply' = Reply("download_document", bearer, arg(None), 403)
           ELSE IF full_file_path = None
           THEN reply' = Reply("download_document", bearer, arg(None), 404)
           ELSE reply' = Reply("download_document", bearer,
                               arg(full_file_path), 200)
    /\ UNCHANGED <<calc, history, inflight, stores>>

\* GET /documents/files/{user_email}/{file_path:path}
DownloadDocument(bearer, user_email, file_path) ==
    /\ LET current_user == get_current_user(bearer)
           relative_path == <<UserDir(user_email)>> \o file_path
           full_file_path == get_file_path(relative_path)
           \* _verify_doc: the caller's row with exactly this file_url
           doc == {d \in documents : /\ d.user_email = bearer
                                     /\ d.file_url = Some(relative_path)}
           arg(served) == [user_email |-> user_email, file_path |-> file_path,
                           served |-> served]
       IN  IF current_user = None
           THEN reply' = Reply("download_document", bearer, arg(None), 401)
           ELSE IF bearer # user_email
           THEN reply' = Reply("download_document", bearer, arg(None), 403)
           ELSE IF full_file_path = None
           THEN reply' = Reply("download_document", bearer, arg(None), 404)
           ELSE IF doc = {}
           THEN reply' = Reply("download_document", bearer, arg(None), 404)
           ELSE reply' = Reply("download_document", bearer,
                               arg(full_file_path), 200)
    /\ UNCHANGED <<calc, history, inflight, stores>>

-----------------------------------------------------------------------------
(* DELETE /delete-account, user_router.py *)

\* db.delete(current_user): the profile goes with the ORM cascade, the
\* user_otp and documents rows with ON DELETE CASCADE; the storage directory
\* is not touched (cleanup_user_storage is not called)
DeleteApp(bearer) ==
    /\ LET current_user == get_current_user(bearer)
       IN  IF current_user = None
           THEN /\ reply' = Reply("delete_account", bearer, <<>>, 401)
                /\ UNCHANGED <<users, profiles, otps, documents>>
           ELSE /\ users' = users \ {current_user[1]}
                /\ profiles' = {p \in profiles : p.email # bearer}
                /\ otps' = {o \in otps : o.email # bearer}
                /\ documents' = {d \in documents : d.user_email # bearer}
                /\ reply' = Reply("delete_account", bearer, <<>>, 200)
    /\ UNCHANGED inflight
    /\ history' = IF reply'.status = 200
                  THEN [history EXCEPT !.period[bearer] = None]
                  ELSE history
    /\ UNCHANGED <<calc, otp_seq, horizon, tokens, now, doc_seq, files,
                   file_seq>>

-----------------------------------------------------------------------------
(* The state machine *)

\* the service before its first request: empty tables, empty storage
EmptyService ==
    /\ users = {}
    /\ otps = {}
    /\ otp_seq = 0
    /\ horizon = 0
    /\ tokens = {}
    /\ profiles = {}
    /\ now = 0
    /\ documents = {}
    /\ doc_seq = 0
    /\ files = {}
    /\ file_seq = 0
    /\ reply = NoReply
    /\ history = NoHistory
    /\ inflight = NoRequests

Init ==
    /\ forecast \in Bodies
    /\ pc = "request"
    /\ liability = NoResult
    /\ response = NoResult
    /\ EmptyService

\* a direct call of compute_tax_liability with the fields of the body
ComputeTaxLiability ==
    /\ pc = "request"
    /\ liability' = compute_tax_liability(SignatureDefaults(forecast),
                                          SignaturePeriod(forecast))
    /\ pc' = "computed"
    /\ UNCHANGED <<forecast, response, stores, reply, history, inflight>>

\* slip: the estimate written to every stored profile
EstimateTax_SavesEstimate ==
    /\ pc = "request"
    /\ LET r == estimate_tax(forecast)
       IN  /\ liability' = r.inner
           /\ response' = r.out
           /\ profiles' = {[p EXCEPT !.cols["estimated_tax"] =
                                Some(r.out.estimated_tax_due)] : p \in profiles}
    /\ pc' = "estimated"
    /\ reply' = Reply("estimate_tax", "", <<>>, 200)
    /\ UNCHANGED <<forecast, history, inflight, users, otps, otp_seq, horizon, tokens, now,
                   documents, doc_seq, files, file_seq>>

\* POST /estimate_tax
EstimateTax ==
    /\ pc = "request"
    /\ LET r == estimate_tax(forecast)
       IN  /\ liability' = r.inner
           /\ response' = r.out
    /\ pc' = "estimated"
    /\ reply' = Reply("estimate_tax", "", <<>>, 200)
    /\ UNCHANGED <<forecast, stores, history, inflight>>

Next == ComputeTaxLiability \/ EstimateTax

Spec == Init /\ [][Next]_vars

\* the values of either sign a field takes in the signed bodies
SignedValues(f) ==
    CASE f = "employment_income" ->
            {Some(0 - Naira(5000000)), Some(0), Some(Naira(5000000)),
             Some(Naira(60000000))}
      [] f = "losses_allowed" ->
            {Some(0 - Naira(2000000)), Some(0), Some(Naira(2000000))}
      [] f = "capital_allowances" -> {Some(0), Some(Naira(7000000))}
      [] f = "pension_contribution" ->
            {Some(0 - Naira(1000000)), Some(0), Some(Naira(1000000))}
      [] f = "house_rent" ->
            {Some(0 - Naira(1000000)), Some(0), Some(Naira(1000000)),
             Some(Naira(3000000))}

\* request bodies with amounts of either sign: Forecast declares plain
\* floats, without a lower bound
SignedBodies ==
    {[DefaultBody EXCEPT !.employment_income = e, !.losses_allowed = l,
                         !.capital_allowances = c,
                         !.pension_contribution = n, !.house_rent = h,
                         !.period = p] :
        e \in SignedValues("employment_income"),
        l \in SignedValues("losses_allowed"),
        c \in SignedValues("capital_allowances"),
        n \in SignedValues("pension_contribution"),
        h \in SignedValues("house_rent"),
        p \in Periods}

InitSigned ==
    /\ forecast \in SignedBodies
    /\ pc = "request"
    /\ liability = NoResult
    /\ response = NoResult
    /\ EmptyService

SpecSigned == InitSigned /\ [][Next]_vars

\* the users, their one-time passwords and their passwords
InitPassword ==
    /\ forecast = DefaultBody
    /\ pc = "request"
    /\ liability = NoResult
    /\ response = NoResult
    /\ EmptyService

NextPassword ==
    \/ \E e \in Emails : RegisterUser(e, "pw1")
    \/ \E e \in Emails, c \in Codes : VerifyUserAccount(e, c)
    \/ \E e \in Emails : ForgetPassword(e)
    \/ \E e \in Emails, c \in Codes, p \in Passwords :
           UpdatePasswordWithOtp(e, c, p)
    \/ TimePasses

SpecPassword == InitPassword /\ [][NextPassword]_vars

\* a request body arrives at POST /profile/estimate_tax
PostForecast(body) ==
    /\ forecast' = body
    /\ pc' = "request"
    /\ liability' = NoResult
    /\ response' = NoResult
    /\ reply' = NoReply
    /\ UNCHANGED <<stores, history, inflight>>

\* two users who have signed up, verified their e-mail and logged in
SignedIn ==
    /\ users = {[email |-> e, password |-> "pw1", is_verified |-> TRUE] :
                    e \in Emails}
    /\ otps = {[id |-> 1, email |-> "ada@x.ng", code |-> "111111",
                is_valid |-> FALSE, created_at |-> 1],
               [id |-> 2, email |-> "bob@x.ng", code |-> "222222",
                is_valid |-> FALSE, created_at |-> 2]}
    /\ otp_seq = 2
    /\ horizon = 0
    /\ tokens = Emails
    /\ profiles = {}
    /\ now = 0
    /\ documents = {}
    /\ doc_seq = 0
    /\ files = {}
    /\ file_seq = 0
    /\ reply = NoReply
    /\ history = [NoHistory EXCEPT
                    !.consumed = {<<o.email, o.code>> : o \in otps}]
    /\ inflight = NoRequests

\* both users signed up and verified more than a day ago
InitRace ==
    /\ forecast = DefaultBody
    /\ pc = "request"
    /\ liability = NoResult
    /\ response = NoResult
    /\ users = {[email |-> e, password |-> "pw1", is_verified |-> TRUE] :
                    e \in Emails}
    /\ otps = {[id |-> 1, email |-> "ada@x.ng", code |-> "111111",
                is_valid |-> FALSE, created_at |-> 1],
               [id |-> 2, email |-> "bob@x.ng", code |-> "222222",
                is_valid |-> FALSE, created_at |-> 2]}
    /\ otp_seq = 2
    /\ horizon = 2
    /\ tokens = {}
    /\ profiles = {}
    /\ now = 0
    /\ documents = {}
    /\ doc_seq = 0
    /\ files = {}
    /\ file_seq = 0
    /\ reply = NoReply
    /\ history = [NoHistory EXCEPT
                    !.consumed = {<<o.email, o.code>> : o \in otps}]
    /\ inflight = NoRequests

NextRace ==
    \/ \E e \in Emails : IssueOtp(e)
    \/ \E i \in Coroutines, e \in Emails, c \in Codes, p \in Passwords :
           AcceptUpdatePassword(i, e, c, p)
    \/ \E i \in Coroutines : CheckOtpStep(i)
    \/ \E i \in Coroutines : CommitPasswordStep(i)

SpecRace == InitRace /\ [][NextRace]_vars

\* the forecast bodies sent while profiles are written
ForecastSamples ==
    {DefaultBody,
     [DefaultBody EXCEPT !.employment_income = Some(Naira(10000000)),
                         !.house_rent = Some(Naira(1000000)),
                         !.period = Some(MONTHLY)]}

\* the profile bodies sent: each a function on the fields the request sets
ProfilePayloads ==
    {[f \in {"name", "employment_income", "house_rent"} |->
         CASE f = "name" -> Some("Ada")
           [] f = "employment_income" -> Some(Naira(5000000))
           [] f = "house_rent" -> Some(Naira(1000000))],
     [f \in {"name", "employment_income", "business_income", "period",
              "estimated_tax"} |->
         CASE f = "name" -> Some("Bob")
           [] f = "employment_income" -> Some(Naira(10000000))
           [] f = "business_income" -> None
           [] f = "period" -> Some(MONTHLY)
           [] f = "estimated_tax" -> Some(1)],
     [f \in {"name", "employment_income", "house_rent", "period"} |->
         CASE f = "name" -> Some("Ada")
           [] f = "employment_income" -> Some(Naira(5000000))
           [] f = "house_rent" -> Some(Naira(1000000))
           [] f = "period" -> Some(MONTHLY)],
     [f \in {"phone_no"} |-> Some("0803")],
     [f \in {"address", "employment_income"} |->
         IF f = "address" THEN Some("Lagos") ELSE None],
     [f \in {"name"} |-> None],
     <<>>}

InitProfile ==
    /\ forecast = DefaultBody
    /\ pc = "request"
    /\ liability = NoResult
    /\ response = NoResult
    /\ SignedIn

NextProfile ==
    \/ \E b \in tokens, p \in ProfilePayloads : CreateProfile(b, p)
    \/ \E b \in tokens, p \in ProfilePayloads : UpdateProfile(b, p)
    \/ \E b \in tokens : DeleteProfile(b)
    \/ \E body \in ForecastSamples : PostForecast(body)
    \/ EstimateTax

SpecProfile == InitProfile /\ [][NextProfile]_vars

\* the paths a download request names: a stored file, a path that climbs
\* out of the user directory to a stored file, and a file that is not there
FilePaths ==
    {<<f[2]>> : f \in files}
    \cup {<<DotDot, f[1], f[2]>> : f \in files}
    \cup {<<Segment(0, "receipt")>>}

\* the profile body sent before an account is deleted
AccountPayload ==
    [f \in {"name", "employment_income"} |->
        IF f = "name" THEN Some("Ada") ELSE Some(Naira(5000000))]

InitDocs ==
    /\ forecast = DefaultBody
    /\ pc = "request"
    /\ liability = NoResult
    /\ response = NoResult
    /\ SignedIn

NextDocs ==
    \/ \E b \in tokens, n \in DocumentNames, w \in BOOLEAN :
           UploadDocument(b, n, w)
    \/ \E b \in tokens, i \in 1..doc_seq, w \in BOOLEAN,
          n \in {None} \cup {Some(x) : x \in DocumentNames} :
           UpdateDocument(b, i, n, w)
    \/ \E b \in tokens, i \in 1..doc_seq : DeleteDocument(b, i)
    \/ \E b \in tokens, e \in Emails, p \in FilePaths :
           DownloadDocument(b, e, p)

SpecDocs == InitDocs /\ [][NextDocs]_vars

InitAccount ==
    /\ forecast = DefaultBody
    /\ pc = "request"
    /\ liability = NoResult
    /\ response = NoResult
    /\ SignedIn

NextAccount ==
    \/ \E b \in tokens, w \in BOOLEAN : UploadDocument(b, "receipt", w)
    \/ \E b \in tokens : CreateProfile(b, AccountPayload)
    \/ \E b \in tokens : DeleteApp(b)
    \/ \E b \in tokens, p \in FilePaths : DownloadDocument(b, b, p)
    \/ \E e \in Emails : RegisterUser(e, "pw2")

SpecAccount == InitAccount /\ [][NextAccount]_vars

TypeOK ==
    /\ DOMAIN forecast = ForecastFields \cup {"period"}
    /\ pc \in {"request", "computed", "estimated"}
    /\ (pc = "request") <=> (liability = NoResult)
    /\ (pc = "estimated") <=> (response # NoResult)

\* 0.20 * house_rent is exact on the grid
AmountsExact ==
    \A f \in ForecastFields : forecast[f] # None => forecast[f][1] % 5 = 0

-----------------------------------------------------------------------------
(* Reference definitions: the rules as the documentation states them,        *)
(* written from the request body and the band table, not from the walk       *)

\* what the body gives for the field f, an unset field counting as 0
Amount(body, f) == IF body[f] = None THEN 0 ELSE body[f][1]

IsMonthly(body) == body.period = Some(MONTHLY)

\* the part of c that lies between the cumulative boundaries lo and hi
Slice(c, lo, hi) == Max(0, Min(c, hi) - lo)

\* the six-band table: 0%, 15%, 18%, 21%, 23% and 25% above 50,000,000
BandSum(c) ==
    0 * Slice(c, 0, Naira(800000))
    + 15 * Slice(c, Naira(800000), Naira(3000000))
    + 18 * Slice(c, Naira(3000000), Naira(12000000))
    + 21 * Slice(c, Naira(12000000), Naira(25000000))
    + 23 * Slice(c, Naira(25000000), Naira(50000000))
    + 25 * Max(0, c - Naira(50000000))

RawIncome(body) ==
    Amount(body, "employment_income") + Amount(body, "business_income")
    + Amount(body, "other_income") + Amount(body, "chargeable_gains")
    - Amount(body, "losses_allowed") - Amount(body, "capital_allowances")

RentCap(body) ==
    IF IsMonthly(body) THEN Naira(500000) \div 12 ELSE Naira(500000)

\* 20% of the rent has reached the cap of the period
RentAtCap(body) == 20 * Amount(body, "house_rent") >= 100 * RentCap(body)

CappedRelief(body) ==
    IF RentAtCap(body) THEN RentCap(body)
    ELSE (20 * Amount(body, "house_rent")) \div 100

SixSummands(body) ==
    Amount(body, "national_housing_fund")
    + Amount(body, "National_health_insurance_scheme")
    + Amount(body, "pension_contribution")
    + Amount(body, "mortgage_interest")
    + Amount(body, "life_insurance_premium")
    + CappedRelief(body)

RefChargeable(body) == Max(Max(RawIncome(body), 0) - SixSummands(body), 0)

NonNegative(body) == \A f \in ForecastFields : Amount(body, f) >= 0

IncomeFields ==
    {"employment_income", "business_income", "other_income", "chargeable_gains"}

DeductionFields ==
    {"national_housing_fund", "National_health_insurance_scheme",
     "pension_contribution", "mortgage_interest", "life_insurance_premium",
     "house_rent"}

\* the increases tried on a field
Increases == {Naira(100000), Naira(1000000), Naira(20000000)}

Raise(body, f, d) == [body EXCEPT ![f] = Some(Amount(body, f) + d)]

\* the value compute_tax_liability returns for a body
TaxDueOf(body) ==
    compute_tax_liability(SignatureDefaults(body), SignaturePeriod(body)).tax

-----------------------------------------------------------------------------
(* Claims *)

\* C1: for every chargeable income c the tax returned by
\* compute_tax_liability (before period scaling) is the progressive sum over
\* the six bands; c = 1,000,000 gives 30,000 and c = 13,500,000 gives 2,265,000.
C1_TaxIsBandSum ==
    liability # NoResult =>
        /\ liability.chargeable_income >= 0
        /\ liability.tax = BandSum(liability.chargeable_income)
        /\ liability.chargeable_income = Naira(1000000)
              => liability.tax = TaxNaira(30000)
        /\ liability.chargeable_income = Naira(13500000)
              => liability.tax = TaxNaira(2265000)

\* a call whose chargeable income reaches the unbounded sixth band
C1_Witness ==
    /\ pc = "computed"
    /\ liability.chargeable_income > Naira(50000000)
    /\ liability.tax > TaxNaira(9435000)

\* C2: total income is the four incomes minus losses_allowed and
\* capital_allowances, clamped to 0 when negative, both inside
\* compute_tax_liability and in the total_income field of estimate_tax.
C2_TotalIncomeClamped ==
    /\ liability # NoResult =>
          liability.total_income =
              (IF RawIncome(forecast) < 0 THEN 0 ELSE RawIncome(forecast))
    /\ response # NoResult =>
          response.total_income =
              (IF RawIncome(forecast) < 0 THEN 0 ELSE RawIncome(forecast))

\* estimate_tax answered a request whose raw sum is negative
C2_Witness ==
    /\ pc = "estimated"
    /\ RawIncome(forecast) < 0
    /\ response.total_income = 0
    /\ liability.total_income = 0

\* C3: rent relief is min(20% of house_rent, cap) with cap 500,000 on ANNUAL
\* and 500,000/12 on MONTHLY; the rent is not multiplied by 12 before the cap
\* (ANNUAL 10,000,000 gives 500,000; MONTHLY 1,000,000 gives 500,000/12).
C3_RentReliefCapped ==
    liability # NoResult =>
        LET h == Amount(forecast, "house_rent")
            cap == RentCap(forecast)
        IN  /\ 12 * (Naira(500000) \div 12) = Naira(500000)
            /\ 20 * h <= 100 * cap => 100 * liability.rent_relief = 20 * h
            /\ 20 * h >= 100 * cap => liability.rent_relief = cap
            /\ (~IsMonthly(forecast) /\ h = Naira(10000000))
                  => liability.rent_relief = Naira(500000)
            /\ (IsMonthly(forecast) /\ h = Naira(1000000))
                  => 12 * liability.rent_relief = Naira(500000)

\* a MONTHLY call with house_rent 1,000,000, capped at 500,000/12
C3_Witness ==
    /\ pc = "computed"
    /\ IsMonthly(forecast)
    /\ Amount(forecast, "house_rent") = Naira(1000000)
    /\ 12 * liability.rent_relief = Naira(500000)

\* C4: eligible deductions, and total_deductions of estimate_tax, are exactly
\* the five deduction fields plus the capped rent relief: no other field of
\* the body changes the value and MONTHLY does not multiply it by 12.
C4_DeductionsAreSixSummands ==
    /\ liability # NoResult =>
          liability.eligible_deductions = SixSummands(forecast)
    /\ response # NoResult =>
          /\ response.total_deductions = SixSummands(forecast)
          /\ \A f \in ForecastFields \ DeductionFields :
                \A v \in FieldValues(f) \cup {Some(0)} :
                    estimate_tax([forecast EXCEPT ![f] = v]).out.total_deductions
                        = response.total_deductions

\* a MONTHLY estimate whose body sets voluntary_pension_contribution and has
\* deductions
C4_Witness ==
    /\ pc = "estimated"
    /\ IsMonthly(forecast)
    /\ Amount(forecast, "voluntary_pension_contribution") > 0
    /\ Amount(forecast, "capital_allowances") > 0
    /\ response.total_deductions > 0

\* C5: chargeable income is max(total_income - eligible_deductions, 0); when
\* the deductions exceed total income the walk runs on 0 and the tax is 0,
\* never negative.
C5_ChargeableClamped ==
    liability # NoResult =>
        LET ti == liability.total_income
            ed == liability.eligible_deductions
        IN  /\ ti >= ed => liability.chargeable_income = ti - ed
            /\ ti < ed => liability.chargeable_income = 0 /\ liability.tax = 0
            /\ liability.tax >= 0

\* a call whose deductions exceed a positive total income
C5_Witness ==
    /\ pc = "computed"
    /\ liability.total_income > 0
    /\ liability.eligible_deductions > liability.total_income
    /\ liability.chargeable_income = 0
    /\ liability.tax = 0

\* C6: on MONTHLY the tax due is 12 times the band walk on the monthly
\* chargeable income (the figures are not multiplied before banding, only the
\* tax after it); on ANNUAL it is the band walk unscaled.
C6_ScaledAfterBanding ==
    response # NoResult =>
        /\ IsMonthly(forecast) =>
              response.estimated_tax_due = 12 * BandSum(RefChargeable(forecast))
        /\ ~IsMonthly(forecast) =>
              response.estimated_tax_due = BandSum(RefChargeable(forecast))

\* a MONTHLY estimate on which scaling before banding would give another tax
C6_Witness ==
    /\ pc = "estimated"
    /\ IsMonthly(forecast)
    /\ response.estimated_tax_due > 0
    /\ 12 * BandSum(RefChargeable(forecast))
          # BandSum(12 * RefChargeable(forecast))

\* C7: gross_tax_liability is the six-band walk on total_income (clamped, no
\* deductions subtracted), times 12 on MONTHLY and unscaled on ANNUAL.
C7_GrossOnTotalIncome ==
    response # NoResult =>
        response.gross_tax_liability =
            (IF IsMonthly(forecast) THEN 12 ELSE 1)
                * BandSum(Max(RawIncome(forecast), 0))

\* a MONTHLY estimate with deductions, where the gross tax exceeds the tax due
C7_Witness ==
    /\ pc = "estimated"
    /\ IsMonthly(forecast)
    /\ response.total_deductions > 0
    /\ response.total_income > Naira(3000000)
    /\ response.gross_tax_liability > response.estimated_tax_due

\* C8: estimated_tax_due is the tax of the liability calculation on the same
\* input, multiplied by 12 exactly once on MONTHLY and by 1 on ANNUAL.
C8_EstimateIsLiability ==
    response # NoResult =>
        /\ response.estimated_tax_due =
              (IF IsMonthly(forecast) THEN 12 ELSE 1) * TaxDueOf(forecast)
        /\ response.estimated_tax_due =
              (IF IsMonthly(forecast) THEN 12 ELSE 1) * liability.tax

\* a MONTHLY estimate with a positive tax
C8_Witness ==
    /\ pc = "estimated"
    /\ IsMonthly(forecast)
    /\ liability.tax > 0
    /\ response.estimated_tax_due = 12 * liability.tax

\* C9: for non-negative inputs and a fixed period, increasing one of the four
\* income fields, the other fields held fixed, never decreases the tax due.
C9_MonotoneInIncome ==
    (liability # NoResult /\ NonNegative(forecast)) =>
        \A f \in IncomeFields : \A d \in Increases :
            TaxDueOf(Raise(forecast, f, d)) >= liability.tax

\* a call with a positive tax that an increase of chargeable_gains raises
C9_Witness ==
    /\ pc = "computed"
    /\ NonNegative(forecast)
    /\ liability.tax > 0
    /\ Amount(forecast, "chargeable_gains") > 0
    /\ TaxDueOf(Raise(forecast, "chargeable_gains", Naira(100000)))
          > liability.tax

\* C10: for non-negative inputs and a fixed period, increasing one of the five
\* deduction fields or house_rent never increases the tax due, and once 20%
\* of house_rent has reached the cap of the period a further increase of
\* house_rent leaves the tax due unchanged.
C10_MonotoneInDeductions ==
    (liability # NoResult /\ NonNegative(forecast)) =>
        /\ \A f \in DeductionFields : \A d \in Increases :
              TaxDueOf(Raise(forecast, f, d)) <= liability.tax
        /\ RentAtCap(forecast) =>
              \A d \in Increases :
                  TaxDueOf(Raise(forecast, "house_rent", d)) = liability.tax

\* a call with a positive tax and the rent at its cap, which an increase of
\* pension_contribution lowers
C10_Witness ==
    /\ pc = "computed"
    /\ NonNegative(forecast)
    /\ RentAtCap(forecast)
    /\ Amount(forecast, "house_rent") > 0
    /\ liability.tax > 0
    /\ TaxDueOf(Raise(forecast, "pension_contribution", Naira(100000)))
          < liability.tax

-----------------------------------------------------------------------------
(* Band table seen from the boundaries *)

\* the rate (per cent) at which the unit of income just above c is taxed
MarginalRate(c) ==
    CASE c < Naira(800000) -> 0
      [] c >= Naira(800000) /\ c < Naira(3000000) -> 15
      [] c >= Naira(3000000) /\ c < Naira(12000000) -> 18
      [] c >= Naira(12000000) /\ c < Naira(25000000) -> 21
      [] c >= Naira(25000000) /\ c < Naira(50000000) -> 23
      [] c >= Naira(50000000) -> 25

\* the five cumulative boundaries and the tax of the bands below each
Boundary ==
    <<Naira(800000), Naira(3000000), Naira(12000000), Naira(25000000),
      Naira(50000000)>>

BoundaryTax ==
    <<TaxNaira(0), TaxNaira(330000), TaxNaira(1950000), TaxNaira(4680000),
      TaxNaira(10430000)>>

\* the walk that evaluates all six bands and never returns early
FullWalk(c) ==
    LET band1 == Min(c, Naira(800000))
        rem1 == c - band1
        band2 == Min(rem1, Naira(2200000))
        rem2 == rem1 - band2
        band3 == Min(rem2, Naira(9000000))
        rem3 == rem2 - band3
        band4 == Min(rem3, Naira(13000000))
        rem4 == rem3 - band4
        band5 == Min(rem4, Naira(25000000))
        rem5 == rem4 - band5
    IN  band1 * 0 + band2 * 15 + band3 * 18 + band4 * 21 + band5 * 23
        + rem5 * 25

AllZero(body) == \A f \in ForecastFields : body[f] \in {None, Some(0)}

\* C11: as a function of chargeable income the tax is non-decreasing and
\* piecewise linear without jumps: one more unit of income costs 0 below
\* 800,000, then 15%, 18%, 21%, 23% and 25% above 50,000,000, the slope
\* changing exactly at the five cumulative boundaries.
C11_SlopeIsBandRate ==
    liability # NoResult =>
        LET c == liability.chargeable_income
        IN  /\ BandWalk(c + 1) - liability.tax = MarginalRate(c)
            /\ c > 0 => liability.tax - BandWalk(c - 1) = MarginalRate(c - 1)
            /\ \A k \in 1..5 :
                  c = Boundary[k] =>
                      /\ BandWalk(c + 1) - liability.tax
                            > liability.tax - BandWalk(c - 1)
                      /\ BandWalk(c + 2) - BandWalk(c + 1)
                            = BandWalk(c + 1) - liability.tax
                      /\ BandWalk(c - 1) - BandWalk(c - 2)
                            = liability.tax - BandWalk(c - 1)
            /\ (\A k \in 1..5 : c # Boundary[k]) /\ c > 0 =>
                  BandWalk(c + 1) - liability.tax
                      = liability.tax - BandWalk(c - 1)

\* a call on the boundary 3,000,000: 15% below it, 18% above it
C11_Witness ==
    /\ pc = "computed"
    /\ liability.chargeable_income = Naira(3000000)
    /\ liability.tax - BandWalk(liability.chargeable_income - 1) = 15
    /\ BandWalk(liability.chargeable_income + 1) - liability.tax = 18

\* C12: on all-zero input, under either period, chargeable income is 0 and
\* the tax due is 0 (the tax is 0 whenever chargeable income does not exceed
\* 800,000); the handler answers with that result, it does not fail.
C12_ZeroInputZeroTax ==
    /\ liability # NoResult =>
          /\ AllZero(forecast) =>
                liability.chargeable_income = 0 /\ liability.tax = 0
          /\ liability.chargeable_income <= Naira(800000) => liability.tax = 0
    /\ (response # NoResult /\ AllZero(forecast)) =>
          response = [gross_tax_liability |-> 0, total_income |-> 0,
                      total_deductions |-> 0, estimated_tax_due |-> 0]
    /\ (pc = "request" /\ AllZero(forecast)) =>
          /\ TaxDueOf(forecast) = 0
          /\ estimate_tax(forecast).out.estimated_tax_due = 0

\* a MONTHLY estimate of an all-zero body in which a field is null
C12_Witness ==
    /\ pc = "estimated"
    /\ AllZero(forecast)
    /\ IsMonthly(forecast)
    /\ \E f \in ForecastFields : forecast[f] = None
    /\ response.estimated_tax_due = 0
    /\ liability.chargeable_income = 0

\* C14: a monetary field that is absent or null gives the same result as the
\* field set to 0, and an absent or null period the same result as ANNUAL;
\* a missing field raises no error.
C14_MissingIsZero ==
    /\ response # NoResult =>
          /\ \A f \in ForecastFields :
                forecast[f] \in {None, Some(0)} =>
                    /\ estimate_tax([forecast EXCEPT ![f] = None]).out = response
                    /\ estimate_tax([forecast EXCEPT ![f] = Some(0)]).out
                          = response
          /\ forecast.period \in {None, Some(ANNUALLY)} =>
                /\ estimate_tax([forecast EXCEPT !.period = None]).out = response
                /\ estimate_tax([forecast EXCEPT !.period = Some(ANNUALLY)]).out
                      = response
    /\ (pc = "request" /\ \E f \in DOMAIN forecast : forecast[f] = None) =>
          estimate_tax(forecast).out.estimated_tax_due >= 0

\* an estimate with a positive tax of a body whose period and rent are null
C14_Witness ==
    /\ pc = "estimated"
    /\ forecast.period = None
    /\ \E f \in ForecastFields : forecast[f] = None
    /\ response.estimated_tax_due > 0
    /\ response.total_deductions > 0

\* C20: on a chargeable income that is exactly a cumulative boundary the walk
\* consumes that whole band, returns with zero remaining and charges nothing
\* from a later band; on every chargeable income the walk with early returns
\* gives the tax of the walk that evaluates all six bands.
C20_BoundaryStopsWalk ==
    liability # NoResult =>
        LET c == liability.chargeable_income
        IN  /\ liability.tax = FullWalk(c)
            /\ \A k \in 1..5 :
                  c = Boundary[k] =>
                      /\ liability.tax = BoundaryTax[k]
                      /\ BandWalkReturn(c) = [after |-> k, remaining |-> 0]

\* a call on the boundary 25,000,000, returned after the fourth band
C20_Witness ==
    /\ pc = "computed"
    /\ liability.chargeable_income = Naira(25000000)
    /\ liability.tax = TaxNaira(4680000)
    /\ BandWalkReturn(liability.chargeable_income).after = 4

-----------------------------------------------------------------------------
(* The requests around the calculator *)

UserOf(table, email) == CHOOSE u \in table : u.email = email

\* the OTP check of the password update, stated on the rows of one email:
\* there is a row no other row is newer than, it is valid and carries the code
LatestOtpMatches(email, code) ==
    \E o \in otps :
        /\ o.email = email
        /\ \A o2 \in otps : o2.email = email => o2.created_at <= o.created_at
        /\ o.is_valid
        /\ o.code = code

\* C17: update_password_with_otp sets the user's password to the new one
\* exactly when the user exists and the most recent OTP record of that email
\* exists, is valid and carries the supplied code; otherwise it answers 404
\* (unknown user) or 400 (bad OTP) and the users table (so every password)
\* and all OTP records are left as they were.
C17_PasswordChangesIffOtpMatches ==
    [][reply'.op = "update_password_with_otp" =>
          LET email == reply'.who
              known == \E u \in users : u.email = email
          IN  IF known /\ LatestOtpMatches(email, reply'.arg.otp)
              THEN /\ reply'.status = 200
                   /\ UserOf(users', email).password = reply'.arg.new_password
                   /\ \A u \in users : u.email # email => u \in users'
              ELSE /\ reply'.status = IF known THEN 400 ELSE 404
                   /\ UNCHANGED <<users, otps>>]_vars

\* a password was replaced by a different one with the newest OTP of an
\* email that has an older, used OTP as well
C17_Witness ==
    /\ reply.op = "update_password_with_otp"
    /\ reply.status = 200
    /\ \E u \in users : u.email = reply.who /\ u.password = "pw2"
    /\ \E o \in otps : o.email = reply.who /\ o.code # reply.arg.otp

\* C13: estimate_tax is a read: a step that serves it changes no user,
\* profile, document or OTP record (nor any other store), and the response is
\* what the handler computes from the request body alone, whatever profile
\* requests and other forecasts were served before it.
C13_EstimateTaxIsPureRead ==
    [][reply'.op = "estimate_tax" =>
          /\ UNCHANGED stores
          /\ forecast' = forecast
          /\ response' = estimate_tax(forecast).out]_vars

\* an estimate served while a profile with another estimated_tax is stored
C13_Witness ==
    /\ reply.op = "estimate_tax"
    /\ response.estimated_tax_due > 0
    /\ \E p \in profiles :
           p.cols["estimated_tax"] # Some(response.estimated_tax_due)

\* C15: create_profile by a user who has a profile answers 400 and leaves
\* the user_profile table as it was, and in every state reached by
\* create_profile, update_profile and delete_profile requests no two rows of
\* user_profile carry the same e-mail.
C15_OneProfilePerUser ==
    /\ [](\A p, q \in profiles : p.email = q.email => p = q)
    /\ [][(/\ reply'.op = "create_profile"
           /\ get_current_user(reply'.who) # None
           /\ ProfileOf(reply'.who) # None)
          => (reply'.status = 400 /\ UNCHANGED profiles)]_vars

\* a second create_profile was refused while both users have a profile
C15_Witness ==
    /\ reply.op = "create_profile"
    /\ reply.status = 400
    /\ \A e \in Emails : ProfileOf(e) # None

\* what a served update_profile leaves alone: the rows of the other users,
\* and in the caller's row the e-mail, date_created and every column the
\* request does not set other than estimated_tax
UpdateKeepsUnsetColumns ==
    LET email == reply'.who
        before == ProfileOf(email)[1]
        after == CHOOSE p \in profiles' : p.email = email
    IN  /\ \A p \in profiles : p.email # email => p \in profiles'
        /\ \A p \in profiles' : p.email # email => p \in profiles
        /\ \E p \in profiles' : p.email = email
        /\ after.date_created = before.date_created
        /\ \A c \in ProfileColumns \ (DOMAIN reply'.arg \cup {"estimated_tax"}) :
               after.cols[c] = before.cols[c]

\* C16 as stated: estimated_tax is the only stored field an update_profile
\* changes without the request setting it, so date_modified keeps its value
\* too; without a profile the answer is 404 and nothing is stored.
C16_OnlyEstimatedTaxExcepted ==
    [][(reply'.op = "update_profile" /\ get_current_user(reply'.who) # None) =>
          IF ProfileOf(reply'.who) = None
          THEN reply'.status = 404 /\ UNCHANGED tables
          ELSE /\ UpdateKeepsUnsetColumns
               /\ (CHOOSE p \in profiles' : p.email = reply'.who).date_modified
                      = ProfileOf(reply'.who)[1].date_modified]_vars

\* C16, amended: update_profile keeps every stored field the request does not
\* set, the exceptions being estimated_tax, which is recomputed, and
\* date_modified, which is stamped with the time of the update exactly when
\* a column of the row takes a new value; without a profile the answer is 404
\* and nothing is stored.
C16_UnsetFieldsKept ==
    [][(reply'.op = "update_profile" /\ get_current_user(reply'.who) # None) =>
          IF ProfileOf(reply'.who) = None
          THEN reply'.status = 404 /\ UNCHANGED tables
          ELSE LET before == ProfileOf(reply'.who)[1]
                   after == CHOOSE p \in profiles' : p.email = reply'.who
               IN  /\ UpdateKeepsUnsetColumns
                   /\ after.date_modified =
                          IF after.cols # before.cols THEN now'
                          ELSE before.date_modified]_vars

\* an update that sets phone_no only was served on a row whose name and
\* employment_income came from the create, and date_modified moved on
C16_Witness ==
    /\ reply.op = "update_profile"
    /\ reply.status = 200
    /\ DOMAIN reply.arg = {"phone_no"}
    /\ \E p \in profiles :
           /\ p.email = reply.who
           /\ p.cols["name"] = Some("Ada")
           /\ p.cols["employment_income"] = Some(Naira(5000000))
           /\ p.cols["phone_no"] = Some("0803")
           /\ p.date_modified > p.date_created

\* C19: download_document serves a file exactly when the caller's e-mail is
\* the user_email of the path, the path leads to a stored file and a document
\* row of the caller has exactly that file URL; the file served then lies in
\* the caller's own directory. Another user_email gives 403, a missing file
\* or row 404, and nothing is changed. update_document and delete_document on
\* a document of another user give 404 and leave rows and files as they were.
C19_OwnFilesOnly ==
    [][(/\ reply'.op \in {"download_document", "update_document",
                         "delete_document"}
        /\ get_current_user(reply'.who) # None) =>
          IF reply'.op = "download_document"
          THEN LET who == reply'.who
                   relative_path ==
                       <<UserDir(reply'.arg.user_email)>> \o reply'.arg.file_path
                   own == reply'.arg.user_email = who
                   stored == get_file_path(relative_path) # None
                   recorded == \E d \in documents :
                                   /\ d.user_email = who
                                   /\ d.file_url = Some(relative_path)
               IN  /\ UNCHANGED stores
                   /\ reply'.status =
                        IF ~own THEN 403
                        ELSE IF stored /\ recorded THEN 200 ELSE 404
                   /\ reply'.status = 200 =>
                        /\ reply'.arg.served # None
                        /\ reply'.arg.served[1] \in files
                        /\ reply'.arg.served[1][1] = UserDir(who)
                   /\ reply'.status # 200 => reply'.arg.served = None
          ELSE (\E d \in documents : /\ d.id = reply'.arg.doc_id
                                     /\ d.user_email # reply'.who)
               => (reply'.status = 404 /\ UNCHANGED <<documents, files>>)]_vars

\* a user asked, under the own e-mail, for a path that climbs to a stored
\* file of the other user, and was refused with 404
C19_Witness ==
    /\ reply.op = "download_document"
    /\ reply.status = 404
    /\ reply.arg.user_email = reply.who
    /\ Len(reply.arg.file_path) = 3
    /\ get_file_path(<<UserDir(reply.who)>> \o reply.arg.file_path) # None
    /\ \E d \in documents : d.user_email = reply.who /\ d.file_url # None

\* C18 as stated: once delete-account has answered 200, no user row,
\* profile, document row, OTP row or stored file of that e-mail remains and
\* the token of that e-mail no longer authenticates.
C18_NothingRemains ==
    [][(reply'.op = "delete_account" /\ reply'.status = 200) =>
          LET email == reply'.who
          IN  /\ \A u \in users' : u.email # email
              /\ \A p \in profiles' : p.email # email
              /\ \A d \in documents' : d.user_email # email
              /\ \A o \in otps' : o.email # email
              /\ \A f \in files' : f[1] # UserDir(email)]_vars

\* the request body a profile row and an update amount to: each tax field
\* from the request when the request sets it, otherwise from the row
EffectiveBody(row, payload, period) ==
    [f \in ForecastFields \cup {"period"} |->
        IF f = "period" THEN period
        ELSE IF f \in DOMAIN payload THEN payload[f]
        ELSE IF f \in TaxFields THEN row.cols[f]
        ELSE Some(0)]

\* the liability of a body by the documented rules, times 12 when MONTHLY
RefEstimate(body) ==
    IF IsMonthly(body) THEN 12 * BandSum(RefChargeable(body))
    ELSE BandSum(RefChargeable(body))

\* C21: after an update_profile whose request supplies a period, the stored
\* estimated_tax is the liability of the twelve tax fields (the request's
\* value where provided, null as 0, otherwise the stored value) under the
\* request's period, times 12 when that period is MONTHLY; an estimated_tax
\* sent by the client is not what is stored.
C21_UpdateRecomputesEstimate ==
    [][(/\ reply'.op = "update_profile"
        /\ reply'.status = 200
        /\ "period" \in DOMAIN reply'.arg) =>
          LET before == ProfileOf(reply'.who)[1]
              after == CHOOSE p \in profiles' : p.email = reply'.who
          IN  after.cols["estimated_tax"] =
                  Some(RefEstimate(EffectiveBody(before, reply'.arg,
                                                 reply'.arg["period"])))]_vars

\* a MONTHLY update carrying a client estimated_tax was served on a row
\* whose stored rent is above the monthly cap, and the stored estimate is
\* not the client's
C21_Witness ==
    /\ reply.op = "update_profile"
    /\ reply.status = 200
    /\ "period" \in DOMAIN reply.arg
    /\ "estimated_tax" \in DOMAIN reply.arg
    /\ reply.arg["period"] = Some(MONTHLY)
    /\ \E p \in profiles :
           /\ p.email = reply.who
           /\ p.cols["house_rent"] = Some(Naira(1000000))
           /\ p.cols["estimated_tax"] # reply.arg["estimated_tax"]
           /\ p.cols["estimated_tax"] # Some(0)

\* the Forecast body with the fields and the period of a profile request
ForecastOf(payload) ==
    [f \in ForecastFields \cup {"period"} |-> PayloadGet(payload, f)]

\* C22 as stated: the estimated_tax create_profile stores, and the one
\* update_profile stores for a request with a period, is the
\* estimated_tax_due estimate_tax returns for the same tax fields and the
\* same period, the MONTHLY rent cap of 500,000/12 included.
C22_ThreePathsAgree ==
    [][/\ (reply'.op = "create_profile" /\ reply'.status = 201) =>
            (CHOOSE p \in profiles' : p.email = reply'.who)
                .cols["estimated_tax"]
              = Some(estimate_tax(ForecastOf(reply'.arg)).out.estimated_tax_due)
       /\ (/\ reply'.op = "update_profile"
           /\ reply'.status = 200
           /\ "period" \in DOMAIN reply'.arg) =>
            (CHOOSE p \in profiles' : p.email = reply'.who)
                .cols["estimated_tax"]
              = Some(estimate_tax(EffectiveBody(ProfileOf(reply'.who)[1],
                                                reply'.arg,
                                                reply'.arg["period"]))
                         .out.estimated_tax_due)]_vars

\* C23 as stated: the period of a profile persists, so an update_profile
\* whose request supplies no period recomputes estimated_tax under the period
\* the last create or update of that profile supplied (MONTHLY: the monthly
\* rent cap and the multiplication by 12).
C23_PeriodPersists ==
    [][(/\ reply'.op = "update_profile"
        /\ reply'.status = 200
        /\ "period" \notin DOMAIN reply'.arg) =>
          LET before == ProfileOf(reply'.who)[1]
              after == CHOOSE p \in profiles' : p.email = reply'.who
          IN  after.cols["estimated_tax"] =
                  Some(RefEstimate(EffectiveBody(before, reply'.arg,
                                                 history.period[reply'.who])))]_vars

\* C24: create_otp makes at most 5 insert attempts. When it succeeds, the
\* table gains exactly one row, valid and of the requested e-mail, with a
\* code no other row carries: the requested code after one attempt when that
\* code was free, a regenerated one after a retry otherwise. When it gives
\* up, it has made 5 attempts, each a collision, and no row was added. An
\* integrity error that is no collision (no users row for the e-mail) is
\* raised after the first attempt. Apart from the purge, no row changes.
C24_CreateOtpBounded ==
    /\ [](\A e \in Emails \ UserEmails, c \in Codes :
             create_otp(otps, UserEmails, e, c, otp_seq) =
                 {[ok |-> FALSE, otps |-> purge_otps(otps), seq |-> otp_seq,
                   attempts |-> 1]})
    /\ [][(/\ reply'.op \in {"signup", "forget_password"}
           /\ reply'.status \in {200, 201, 500}) =>
             LET n == reply'.arg.attempts
                 free == \A o \in purge_otps(otps) : o.code # reply'.arg.code
                 added == otps' \ otps
             IN  /\ n \in 1..max_attempts
                 /\ otps' \ added = purge_otps(otps)
                 /\ \A o1, o2 \in otps' : o1.code = o2.code => o1 = o2
                 /\ IF reply'.status = 500
                    THEN n = max_attempts /\ added = {} /\ ~free
                    ELSE /\ Cardinality(added) = 1
                         /\ \A o \in added : /\ o.email = reply'.who
                                             /\ o.is_valid
                                             /\ free => o.code = reply'.arg.code
                         /\ n = 1 <=> free]_vars

\* forget-password gave up after five collisions, and the table is as before
C24_Witness ==
    /\ reply.op = "forget_password"
    /\ reply.status = 500
    /\ reply.arg.attempts = 5
    /\ Cardinality(otps) = Cardinality(Codes)

\* the code an e-mail verification or a password update presents
PresentedCode(r) ==
    IF r.op = "email_verification" THEN r.arg ELSE r.arg.otp

OtpFlows == {"email_verification", "update_password_with_otp"}

\* C25 as stated: once a code has been consumed for an e-mail by a
\* successful verification or password update, every later verification or
\* password update presenting that code for that e-mail answers 400 and
\* leaves is_verified and the password as they were.
C25_ConsumedCodeRefused ==
    [][(/\ reply'.op \in OtpFlows
        /\ <<reply'.who, PresentedCode(reply')>> \in history.consumed) =>
          (reply'.status = 400 /\ UNCHANGED users)]_vars

\* C25, amended: a successful verification or password update marks the OTP
\* record it used invalid; an invalid record never becomes valid again; and
\* while that record is stored, every verification or password update
\* presenting its code for its e-mail answers 400 and leaves is_verified and
\* the password as they were. (Once the record is purged, the same code can
\* be issued again as a new OTP.)
C25_ConsumedRecordRefused ==
    [][/\ (reply'.op \in OtpFlows /\ reply'.status = 200) =>
            \E o \in otps :
                /\ o.email = reply'.who
                /\ o.code = PresentedCode(reply')
                /\ o.is_valid
                /\ [o EXCEPT !.is_valid = FALSE] \in otps'
       /\ \A o \in otps : ~o.is_valid =>
              \A o2 \in otps' : o2.id = o.id => o2 = o
       /\ (/\ reply'.op \in OtpFlows
           /\ \E o \in otps : /\ o.email = reply'.who
                              /\ o.code = PresentedCode(reply')
                              /\ ~o.is_valid) =>
            (reply'.status = 400 /\ UNCHANGED users)]_vars

\* a code consumed by the e-mail verification was presented to the password
\* update while its record is stored, and was refused
C25_Witness ==
    /\ reply.op = "update_password_with_otp"
    /\ reply.status = 400
    /\ <<reply.who, reply.arg.otp>> \in history.consumed
    /\ \E o \in otps : /\ o.email = reply.who
                       /\ o.code = reply.arg.otp
                       /\ ~o.is_valid
    /\ \E u \in users : u.email = reply.who /\ u.is_verified /\ u.password = "pw1"

\* C26: of two update_password_with_otp requests in flight with the same
\* valid OTP for the same e-mail at most one updates the password, and the
\* OTP check, the password update and the OTP invalidation act as one atomic
\* step: when a request commits, the check it made still holds (the newest
\* OTP row of the e-mail is valid and carries the presented code), and that
\* row is the one made invalid.
C26_AtMostOneUpdate ==
    /\ [](\A i, j \in Coroutines :
              (/\ i # j
               /\ inflight[i].stage = "done" /\ inflight[i].status = 200
               /\ inflight[j].stage = "done" /\ inflight[j].status = 200)
              => inflight[i].otp_record # inflight[j].otp_record)
    /\ [][\A i \in Coroutines :
              (/\ inflight[i].stage # "done"
               /\ inflight'[i].stage = "done"
               /\ inflight'[i].status = 200) =>
                 LET r == inflight'[i]
                     mine == {o \in otps : o.email = r.email}
                 IN  /\ mine # {}
                     /\ MostRecent(mine).is_valid
                     /\ MostRecent(mine).code = r.otp
                     /\ r.otp_record = Some(MostRecent(mine))
                     /\ otps' = (otps \ {MostRecent(mine)}) \cup
                                   {[MostRecent(mine) EXCEPT !.is_valid = FALSE]}
                     /\ \A u \in users' :
                            u.email = r.email => u.password = r.new_password]_vars

\* two requests with the same OTP and e-mail but different passwords were in
\* flight together; one has updated the password and the other was refused
C26_Witness ==
    \E i, j \in Coroutines :
        /\ i # j
        /\ inflight[i].overlap /\ inflight[j].overlap
        /\ inflight[i].email = inflight[j].email
        /\ inflight[i].otp = inflight[j].otp
        /\ inflight[i].new_password # inflight[j].new_password
        /\ inflight[i].stage = "done" /\ inflight[i].status = 200
        /\ inflight[j].stage = "done" /\ inflight[j].status = 400
        /\ \E u \in users : /\ u.email = inflight[i].email
                            /\ u.password = inflight[i].new_password

\* C27: for a body whose amounts are all non-negative, under either period,
\* estimate_tax returns gross_tax_liability >= estimated_tax_due >= 0, and
\* the two are equal whenever total_deductions is 0.
C27_GrossAtLeastDue ==
    (pc = "estimated" /\ NonNegative(forecast)) =>
        /\ response.gross_tax_liability >= response.estimated_tax_due
        /\ response.estimated_tax_due >= 0
        /\ response.total_deductions = 0 =>
               response.gross_tax_liability = response.estimated_tax_due

\* a MONTHLY body of non-negative amounts whose deductions lower the tax
C27_Witness ==
    /\ pc = "estimated"
    /\ NonNegative(forecast)
    /\ IsMonthly(forecast)
    /\ response.total_deductions > 0
    /\ response.gross_tax_liability > response.estimated_tax_due
    /\ response.estimated_tax_due > 0

\* C28: amounts of either sign are neither clamped nor rejected: every field
\* enters the total-income sum, the rent-relief formula and the
\* eligible-deductions sum with its own sign, total income and chargeable
\* income are the only values clamped at 0, and estimate_tax returns a
\* result for every body.
C28_SignedAmountsPassThrough ==
    LET r == estimate_tax(forecast)
        k == IF IsMonthly(forecast) THEN 12 ELSE 1
        relief == Min((20 * Amount(forecast, "house_rent")) \div 100,
                      RentCap(forecast))
        deductions == Amount(forecast, "national_housing_fund")
                      + Amount(forecast, "National_health_insurance_scheme")
                      + Amount(forecast, "pension_contribution")
                      + Amount(forecast, "mortgage_interest")
                      + Amount(forecast, "life_insurance_premium")
                      + relief
        income == Max(RawIncome(forecast), 0)
        chargeable == Max(income - deductions, 0)
    IN  /\ r.out.total_income = income
        /\ r.inner.rent_relief = relief
        /\ r.inner.eligible_deductions = deductions
        /\ r.out.total_deductions = deductions
        /\ r.inner.chargeable_income = chargeable
        /\ r.out.gross_tax_liability = k * BandSum(income)
        /\ r.out.estimated_tax_due = k * BandSum(chargeable)
        /\ pc = "estimated" => response = r.out /\ liability = r.inner

\* a body with a negative rent, a negative pension contribution and a
\* negative loss: the deductions come out negative and the tax due exceeds
\* the gross liability
C28_Witness ==
    /\ pc = "estimated"
    /\ Amount(forecast, "house_rent") < 0
    /\ Amount(forecast, "pension_contribution") < 0
    /\ Amount(forecast, "losses_allowed") < 0
    /\ response.total_deductions < 0
    /\ response.total_income > Amount(forecast, "employment_income")
    /\ response.estimated_tax_due > response.gross_tax_liability

====
